---- MODULE Spec2Model ----
(***************************************************************************)
(* CarCard tag backend: the Prisma tag controller (tagController), its     *)
(* in-memory OTP store and the tag table, as a state machine.              *)
(*                                                                         *)
(* Every request handler is an async function.  Node runs the code between *)
(* two awaits without interruption, and every await is a database call, so *)
(* a handler is modelled by up to three steps:                             *)
(*   X_Find   a request arrives and its first query reads the tag table;   *)
(*   X_Cont   the code after that await runs (checks, OTP store, reply or   *)
(*            the next query is issued);                                    *)
(*   X_Write  the database executes that query and the reply is built.     *)
(* Steps of different requests interleave freely.                          *)
(***************************************************************************)
EXTENDS Integers, Sequences, FiniteSets, TLC

VARIABLES
    tags,         \* the tag table: tag id -> row
    scans,        \* the scan table, in insertion order
    tagOtpStore,  \* the controller's in-memory OTP store: key -> entry
    now,          \* Date.now(), in milliseconds
    ticks,        \* how many times the clock has advanced
    reqs,         \* the request slots: slot -> request in flight or answered
    nreq,         \* how many requests have arrived
    storeTags     \* the app's tag store: tag id -> the privacy block it shows

vars == <<tags, scans, tagOtpStore, now, ticks, reqs, nreq, storeTags>>

(***************************************************************************)
(* Bounds of the model.                                                    *)
(***************************************************************************)
MaxReqs == 3
MaxTicks == 2
MaxTags == 2

(***************************************************************************)
(* Values.                                                                 *)
(***************************************************************************)
Null == "<null>"
NoTag == << >>
NoRes == << >>
NoUser == "<anonymous>"

Users == {"U1", "U2"}
Callers == Users \cup {NoUser}

TagPrefix == <<"T", "A", "G", "-">>
CodeA == TagPrefix \o <<"A">>
CodeB == TagPrefix \o <<"B">>
PlainCode == <<"X", "Y">>
Codes == {CodeA, CodeB, PlainCode}

IdSeq == << <<"i", "d", "1">>, <<"i", "d", "2">>, <<"i", "d", "3">> >>
Ids == {IdSeq[i] : i \in 1..Len(IdSeq)}

PrivacyFlags == {"allowMaskedCall", "allowWhatsapp", "allowSms", "showEmergencyContact"}
BooleanColumns == PrivacyFlags \cup {"isActive"}
StringColumns == {"id", "code", "userId", "status", "type", "nickname", "plateNumber",
                  "vehicleColor", "vehicleMake", "vehicleModel",
                  "emergencyContactName", "emergencyContactPhone"}
Columns == StringColumns \cup BooleanColumns

\* JavaScript falsiness of a string-or-null value.
Falsy(v) == v \in {Null, ""}

Has(body, k) == k \in DOMAIN body

\* A blank tag row as the batch generator inserts it; unset columns are null.
BlankRow(id, code) ==
    [id |-> id, code |-> code, userId |-> Null, status |-> "created",
     isActive |-> FALSE, type |-> "car", nickname |-> Null, plateNumber |-> Null,
     vehicleColor |-> Null, vehicleMake |-> Null, vehicleModel |-> Null,
     emergencyContactName |-> Null, emergencyContactPhone |-> Null,
     allowMaskedCall |-> TRUE, allowWhatsapp |-> TRUE, allowSms |-> TRUE,
     showEmergencyContact |-> FALSE]

\* The columns a create fills in when the request leaves them out.
DefaultRow(id) ==
    [id |-> id, code |-> Null, userId |-> Null, status |-> "created",
     isActive |-> TRUE, type |-> "car", nickname |-> Null, plateNumber |-> Null,
     vehicleColor |-> Null, vehicleMake |-> Null, vehicleModel |-> Null,
     emergencyContactName |-> Null, emergencyContactPhone |-> Null,
     allowMaskedCall |-> TRUE, allowWhatsapp |-> TRUE, allowSms |-> TRUE,
     showEmergencyContact |-> FALSE]

\* Object spread {...a, ...b}: the keys of both, b winning.
Merge(a, b) ==
    [k \in (DOMAIN a) \cup (DOMAIN b) |-> IF k \in DOMAIN b THEN b[k] ELSE a[k]]

FormatTagResponse_SmsFollowsWhatsapp(tag) ==
    Merge(tag,
          [_id |-> tag.id,
           privacy |-> [allowMaskedCall |-> tag.allowMaskedCall,
                        allowWhatsapp |-> tag.allowWhatsapp,
                        allowSms |-> tag.allowWhatsapp,
                        showEmergencyContact |-> tag.showEmergencyContact],
           emergencyContact |-> [name |-> tag.emergencyContactName,
                                 phone |-> tag.emergencyContactPhone]])

FormatTagResponse(tag) ==
    Merge(tag,
          [_id |-> tag.id,
           privacy |-> [allowMaskedCall |-> tag.allowMaskedCall,
                        allowWhatsapp |-> tag.allowWhatsapp,
                        allowSms |-> tag.allowSms,
                        showEmergencyContact |-> tag.showEmergencyContact],
           emergencyContact |-> [name |-> tag.emergencyContactName,
                                 phone |-> tag.emergencyContactPhone]])

(***************************************************************************)
(* The tag table (Prisma).                                                 *)
(***************************************************************************)
FindById(id) == IF id \in DOMAIN tags THEN tags[id] ELSE NoTag

FindByCode(code) ==
    IF \E i \in DOMAIN tags : tags[i].code = code
    THEN tags[CHOOSE i \in DOMAIN tags : tags[i].code = code]
    ELSE NoTag

\* prisma.tag.update({ where: { id }, data }): the row after the update.
UpdatedRow(row, data) == Merge(row, data)

\* The id the database gives the next created row.
NewId == IdSeq[Cardinality(DOMAIN tags) + 1]

(***************************************************************************)
(* Requests.                                                               *)
(***************************************************************************)
Slots == {1, 2}

Idle == [op |-> "none", pc |-> "idle", userId |-> NoUser, param |-> << >>,
         body |-> << >>, app |-> Null, tag |-> NoTag, stored |-> << >>,
         data |-> << >>, res |-> NoRes, from |-> Null]

\* A new request takes the first slot that is idle or whose reply has been sent.
Free(s) ==
    /\ nreq < MaxReqs
    /\ reqs[s].pc \in {"idle", "done"}
    /\ \A t \in Slots : t < s => reqs[t].pc \notin {"idle", "done"}

\* res.status(status).json(body): the request is answered; the handler's locals are gone.
Reply(r, status, body) ==
    [Idle EXCEPT !.op = r.op, !.pc = "done", !.userId = r.userId, !.param = r.param,
                 !.body = r.body, !.app = r.app, !.stored = r.stored, !.from = r.from,
                 !.res = [status |-> status, body |-> body]]

Msg(text) == [message |-> text]

Creating == Cardinality({s \in Slots : reqs[s].op = "createTag" /\ reqs[s].pc \in {"cont", "write"}})

\* The rows of all batches in flight that are not inserted yet.
Batching ==
    LET pending(s) == IF reqs[s].op = "generateBatch" /\ reqs[s].pc \in {"draw", "insert"}
                      THEN reqs[s].body.quantity - reqs[s].data.i ELSE 0 IN
    pending(1) + pending(2)

(***************************************************************************)
(* POST /tags/activate: activateTag                                        *)
(***************************************************************************)
Nicknames == {"", "Nick"}
Plates == {"MH12"}
Types == {"bike"}

ActivateBodies ==
    {[code |-> c, nickname |-> n, plateNumber |-> p, type |-> t] :
        c \in {CodeA, CodeB}, n \in Nicknames, p \in Plates, t \in Types}
    \cup {[code |-> c] : c \in {CodeA}}

\* A variant that rejects only a tag that was switched off.
AlreadyLinked_DisabledOnly(tag) == tag.status = "disabled"

\* The check of step 2: is the tag already active or bound to a user?
AlreadyLinked(tag) == tag.status = "active" \/ ~Falsy(tag.userId)

\* A variant that stores the nickname as sent, without the placeholder.
ActivateData_NoPlaceholder(userId, body) ==
    [userId |-> userId,
     nickname |-> IF Has(body, "nickname") THEN body.nickname ELSE Null,
     plateNumber |-> IF Has(body, "plateNumber") /\ ~Falsy(body.plateNumber)
                     THEN body.plateNumber ELSE "",
     status |-> "active",
     isActive |-> TRUE]

\* The data of the activating update.
ActivateData(userId, body) ==
    [userId |-> userId,
     nickname |-> IF Has(body, "nickname") /\ ~Falsy(body.nickname)
                  THEN body.nickname ELSE "My Vehicle",
     plateNumber |-> IF Has(body, "plateNumber") /\ ~Falsy(body.plateNumber)
                     THEN body.plateNumber ELSE "",
     status |-> "active",
     isActive |-> TRUE]

\* The request up to the answer of its findUnique.
ActivateTag_Request(u, body) ==
    LET r == [Idle EXCEPT !.op = "activateTag", !.userId = u, !.body = body] IN
    IF u = NoUser
    THEN Reply(r, 401, Msg("User not authenticated"))
    ELSE [r EXCEPT !.pc = "cont", !.tag = FindByCode(body.code)]

ActivateTag_Find(s, u, body) ==
    /\ Free(s)
    /\ nreq' = nreq + 1
    /\ reqs' = [reqs EXCEPT ![s] = ActivateTag_Request(u, body)]
    /\ UNCHANGED <<tags, scans, tagOtpStore, now, ticks, storeTags>>

ActivateTag_Cont(s) ==
    /\ reqs[s].op = "activateTag" /\ reqs[s].pc = "cont"
    /\ LET r == reqs[s] IN
       reqs' = [reqs EXCEPT ![s] =
                  IF r.tag = NoTag THEN Reply(r, 404, Msg("Invalid tag code"))
                  ELSE IF AlreadyLinked(r.tag)
                  THEN Reply(r, 400, Msg("This tag is already linked to another user"))
                  ELSE [r EXCEPT !.pc = "write", !.data = ActivateData(r.userId, r.body)]]
    /\ UNCHANGED <<tags, scans, tagOtpStore, now, ticks, nreq, storeTags>>

ActivateTag_Write(s) ==
    /\ reqs[s].op = "activateTag" /\ reqs[s].pc = "write"
    /\ LET r == reqs[s]
           id == r.tag.id
           row == UpdatedRow(tags[id], r.data) IN
       /\ tags' = [tags EXCEPT ![id] = row]
       /\ reqs' = [reqs EXCEPT ![s] =
                     Reply(r, 200, [message |-> "Tag activated successfully",
                                    tag |-> FormatTagResponse(row)])]
    /\ UNCHANGED <<scans, tagOtpStore, now, ticks, nreq, storeTags>>

(***************************************************************************)
(* POST /tags: createTag                                                   *)
(***************************************************************************)
CreateBodies ==
    {[code |-> c, nickname |-> "Nick", type |-> "bike", plateNumber |-> "MH12"] :
        c \in Codes}

CreateData(userId, body) ==
    [k \in (DOMAIN body) \cap {"code", "nickname", "type", "plateNumber"} |-> body[k]]
    @@ [userId |-> userId, status |-> "active", isActive |-> TRUE]

\* The request up to the answer of its findUnique.
CreateTag_Request(u, body) ==
    [Idle EXCEPT !.op = "createTag", !.pc = "cont", !.userId = u,
                 !.body = body, !.tag = FindByCode(body.code)]

CreateTag_Find(s, u, body) ==
    /\ Free(s)
    /\ Cardinality(DOMAIN tags) + Creating + Batching < MaxTags
    /\ nreq' = nreq + 1
    /\ reqs' = [reqs EXCEPT ![s] = CreateTag_Request(u, body)]
    /\ UNCHANGED <<tags, scans, tagOtpStore, now, ticks, storeTags>>

CreateTag_Cont(s) ==
    /\ reqs[s].op = "createTag" /\ reqs[s].pc = "cont"
    /\ LET r == reqs[s] IN
       reqs' = [reqs EXCEPT ![s] =
                  IF r.tag # NoTag THEN Reply(r, 400, Msg("Tag code already registered"))
                  ELSE IF r.userId = NoUser THEN Reply(r, 401, Msg("Not authenticated"))
                  ELSE [r EXCEPT !.pc = "write", !.data = CreateData(r.userId, r.body)]]
    /\ UNCHANGED <<tags, scans, tagOtpStore, now, ticks, nreq, storeTags>>

\* prisma.tag.create: code is a unique column, so a duplicate insert throws.
CreateTag_Write(s) ==
    /\ reqs[s].op = "createTag" /\ reqs[s].pc = "write"
    /\ LET r == reqs[s]
           row == Merge(DefaultRow(NewId), r.data) IN
       IF FindByCode(r.data.code) # NoTag
       THEN /\ reqs' = [reqs EXCEPT ![s] = Reply(r, 500, Msg("Server error"))]
            /\ UNCHANGED tags
       ELSE /\ tags' = tags @@ (NewId :> row)
            /\ reqs' = [reqs EXCEPT ![s] = Reply(r, 201, FormatTagResponse(row))]
    /\ UNCHANGED <<scans, tagOtpStore, now, ticks, nreq, storeTags>>

(***************************************************************************)
(* Request bodies of the edit endpoints.                                   *)
(***************************************************************************)
Phones == {"P1", "P2"}

TextFields == {"nickname", "plateNumber", "type", "vehicleColor", "vehicleMake",
               "vehicleModel", "emergencyContactName"}
EditFields == TextFields \cup PrivacyFlags

\* The values a request may carry for a field.
FieldValues(f) ==
    IF f \in PrivacyFlags THEN BOOLEAN
    ELSE IF f = "emergencyContactPhone" THEN Phones \cup {""}
    ELSE IF f = "type" THEN {"bike"}
    ELSE IF f = "nickname" THEN {"Car2"}
    ELSE {"text"}

PatchKeySets ==
    {{}} \cup {{f} : f \in EditFields \cup {"emergencyContactPhone"}}
         \cup {{f, "emergencyContactPhone"} : f \in {"nickname", "allowSms"}}

PatchesOver(ks) ==
    IF ks = {} THEN {<< >>}
    ELSE IF Cardinality(ks) = 1
    THEN {(f :> v) : f \in ks, v \in FieldValues(CHOOSE g \in ks : TRUE)}
    ELSE LET f == CHOOSE g \in ks : g # "emergencyContactPhone" IN
         {(f :> v) @@ ("emergencyContactPhone" :> p) :
             v \in FieldValues(f), p \in FieldValues("emergencyContactPhone")}

Patches == UNION {PatchesOver(ks) : ks \in PatchKeySets}

\* The patches a request sends as pendingData.
PendingKeySets == {{}, {"nickname"}, {"allowSms"}, {"nickname", "emergencyContactPhone"}}

PendingPatches == UNION {PatchesOver(ks) : ks \in PendingKeySets}

\* A variant that also copies the phone number of the body.
CopyFields_WithPhone(data) ==
    [k \in (DOMAIN data) \cap (EditFields \cup {"emergencyContactPhone"}) |-> data[k]]

\* A variant that copies the text fields only.
CopyFields_TextOnly(data) == [k \in (DOMAIN data) \cap TextFields |-> data[k]]

\* The fields a handler copies from a patch into updateData: those that are present.
CopyFields(data) == [k \in (DOMAIN data) \cap EditFields |-> data[k]]

\* A variant that only asks whether the tag has an owner at all.
IsOwner_AnyOwner(tag, userId) == ~Falsy(tag.userId)

IsOwner(tag, userId) == tag.userId = userId

(***************************************************************************)
(* PUT /tags/:id: updateTag                                                *)
(***************************************************************************)
\* A variant that asks for an OTP only when a phone number is already stored.
IsPhoneChanging_StoredOnly(body, tag) ==
    /\ Has(body, "emergencyContactPhone")
    /\ ~Falsy(tag.emergencyContactPhone)
    /\ body.emergencyContactPhone # tag.emergencyContactPhone
    /\ body.emergencyContactPhone # ""

IsPhoneChanging(body, tag) ==
    /\ Has(body, "emergencyContactPhone")
    /\ body.emergencyContactPhone # tag.emergencyContactPhone
    /\ body.emergencyContactPhone # ""

OtpRequiredBody ==
    [otpRequired |-> TRUE,
     message |-> "Phone number changed. OTP verification required before saving."]

UpdateTag_Find(s, u, id, body) ==
    /\ Free(s)
    /\ nreq' = nreq + 1
    /\ LET r == [Idle EXCEPT !.op = "updateTag", !.userId = u, !.param = id, !.body = body] IN
       reqs' = [reqs EXCEPT ![s] =
                  IF u = NoUser THEN Reply(r, 401, Msg("Not authenticated"))
                  ELSE [r EXCEPT !.pc = "cont", !.tag = FindById(id)]]
    /\ UNCHANGED <<tags, scans, tagOtpStore, now, ticks, storeTags>>

UpdateTag_Cont(s) ==
    /\ reqs[s].op = "updateTag" /\ reqs[s].pc = "cont"
    /\ LET r == reqs[s] IN
       reqs' = [reqs EXCEPT ![s] =
                  IF r.tag = NoTag THEN Reply(r, 404, Msg("Tag not found"))
                  ELSE IF ~IsOwner(r.tag, r.userId)
                  THEN Reply(r, 403, Msg("You do not own this tag"))
                  ELSE IF IsPhoneChanging(r.body, r.tag) THEN Reply(r, 200, OtpRequiredBody)
                  ELSE [r EXCEPT !.pc = "write", !.data = CopyFields(r.body)]]
    /\ UNCHANGED <<tags, scans, tagOtpStore, now, ticks, nreq, storeTags>>

UpdateTag_Write(s) ==
    /\ reqs[s].op = "updateTag" /\ reqs[s].pc = "write"
    /\ LET r == reqs[s]
           row == UpdatedRow(tags[r.param], r.data) IN
       /\ tags' = [tags EXCEPT ![r.param] = row]
       /\ reqs' = [reqs EXCEPT ![s] =
                     Reply(r, 200, [message |-> "Tag updated successfully",
                                    tag |-> FormatTagResponse(row)])]
    /\ UNCHANGED <<scans, tagOtpStore, now, ticks, nreq, storeTags>>

(***************************************************************************)
(* POST /tags/:id/otp/send: sendTagOtp                                     *)
(***************************************************************************)
OtpTtlMs == 300000

\* Math.floor(100000 + Math.random() * 900000).toString(): two of the possible draws.
OtpDraws == {"100000", "483920"}

\* The characters of the phone numbers of the model.
PhoneChars == ("P1" :> <<"P", "1">>) @@ ("P2" :> <<"P", "2">>) @@ ("" :> << >>)

\* A variant whose key leaves the phone number out.
StoreKey_TagOnly(id, phoneNumber) == id \o <<":">>

\* The template string `${id}:${phoneNumber}`.
StoreKey(id, phoneNumber) == id \o <<":">> \o PhoneChars[phoneNumber]

OtpEntry(otp, body) ==
    [otp |-> otp,
     expiresAt |-> now + OtpTtlMs,
     pendingData |-> IF Has(body, "pendingData") THEN body.pendingData ELSE << >>]

SendBodies ==
    {[phoneNumber |-> p, pendingData |-> d] : p \in Phones, d \in PendingPatches}
    \cup {[phoneNumber |-> p] : p \in Phones \cup {""}}

SendTagOtp_Find(s, u, id, body) ==
    /\ Free(s)
    /\ nreq' = nreq + 1
    /\ LET r == [Idle EXCEPT !.op = "sendTagOtp", !.userId = u, !.param = id, !.body = body] IN
       reqs' = [reqs EXCEPT ![s] =
                  IF u = NoUser THEN Reply(r, 401, Msg("Not authenticated"))
                  ELSE [r EXCEPT !.pc = "cont", !.tag = FindById(id)]]
    /\ UNCHANGED <<tags, scans, tagOtpStore, now, ticks, storeTags>>

SendTagOtp_Cont(s, otp) ==
    /\ reqs[s].op = "sendTagOtp" /\ reqs[s].pc = "cont"
    /\ LET r == reqs[s]
           key == StoreKey(r.param, r.body.phoneNumber) IN
       IF r.tag = NoTag
       THEN /\ reqs' = [reqs EXCEPT ![s] = Reply(r, 404, Msg("Tag not found"))]
            /\ UNCHANGED tagOtpStore
       ELSE IF ~IsOwner(r.tag, r.userId)
       THEN /\ reqs' = [reqs EXCEPT ![s] = Reply(r, 403, Msg("You do not own this tag"))]
            /\ UNCHANGED tagOtpStore
       ELSE IF Falsy(r.body.phoneNumber)
       THEN /\ reqs' = [reqs EXCEPT ![s] = Reply(r, 400, Msg("Phone number is required"))]
            /\ UNCHANGED tagOtpStore
       ELSE /\ tagOtpStore' = [k \in (DOMAIN tagOtpStore) \cup {key} |->
                                 IF k = key THEN OtpEntry(otp, r.body) ELSE tagOtpStore[k]]
            /\ reqs' = [reqs EXCEPT ![s] = Reply(r, 200, Msg("OTP sent successfully"))]
    /\ UNCHANGED <<tags, scans, now, ticks, nreq, storeTags>>

(***************************************************************************)
(* POST /tags/:id/otp/verify: verifyTagOtpAndUpdate                        *)
(***************************************************************************)
VerifyBodies ==
    {[phoneNumber |-> p, otp |-> o, pendingData |-> d] :
        p \in Phones, o \in OtpDraws, d \in PendingPatches}
    \cup {[phoneNumber |-> p, otp |-> o] : p \in Phones, o \in OtpDraws}

\* A variant that takes any submitted code for the stored one.
OtpMatches_Always(stored, otp) == TRUE

\* stored.otp !== otp, negated.
OtpMatches(stored, otp) == stored.otp = otp

\* A variant that grants the entry a second expiry window.
IsExpired_TwoWindows(stored) == now > stored.expiresAt + OtpTtlMs

IsExpired(stored) == now > stored.expiresAt

\* A variant that leaves the entry in the store.
Deleted_Kept(store, key) == store

\* delete tagOtpStore[key]
Deleted(store, key) == [k \in (DOMAIN store) \ {key} |-> store[k]]

\* const data = pendingData || stored.pendingData || {}   (an object is always truthy)
VerifyPatch(body, stored) ==
    IF Has(body, "pendingData") THEN body.pendingData ELSE stored.pendingData

VerifyData(body, stored) ==
    Merge(CopyFields(VerifyPatch(body, stored)), [emergencyContactPhone |-> body.phoneNumber])

VerifyTagOtp_Find(s, u, id, body) ==
    /\ Free(s)
    /\ nreq' = nreq + 1
    /\ LET r == [Idle EXCEPT !.op = "verifyTagOtpAndUpdate", !.userId = u, !.param = id,
                             !.body = body] IN
       reqs' = [reqs EXCEPT ![s] =
                  IF u = NoUser THEN Reply(r, 401, Msg("Not authenticated"))
                  ELSE [r EXCEPT !.pc = "cont", !.tag = FindById(id)]]
    /\ UNCHANGED <<tags, scans, tagOtpStore, now, ticks, storeTags>>

VerifyTagOtp_Cont(s) ==
    /\ reqs[s].op = "verifyTagOtpAndUpdate" /\ reqs[s].pc = "cont"
    /\ LET r == reqs[s]
           key == StoreKey(r.param, r.body.phoneNumber) IN
       IF r.tag = NoTag
       THEN /\ reqs' = [reqs EXCEPT ![s] = Reply(r, 404, Msg("Tag not found"))]
            /\ UNCHANGED tagOtpStore
       ELSE IF ~IsOwner(r.tag, r.userId)
       THEN /\ reqs' = [reqs EXCEPT ![s] = Reply(r, 403, Msg("You do not own this tag"))]
            /\ UNCHANGED tagOtpStore
       ELSE IF key \notin DOMAIN tagOtpStore
       THEN /\ reqs' = [reqs EXCEPT ![s] = Reply(r, 400, Msg("No OTP was sent for this number"))]
            /\ UNCHANGED tagOtpStore
       ELSE IF IsExpired(tagOtpStore[key])
       THEN /\ tagOtpStore' = Deleted(tagOtpStore, key)
            /\ reqs' = [reqs EXCEPT ![s] =
                          Reply([r EXCEPT !.stored = tagOtpStore[key]], 400,
                                Msg("OTP has expired. Please request a new one."))]
       ELSE IF ~OtpMatches(tagOtpStore[key], r.body.otp)
       THEN /\ reqs' = [reqs EXCEPT ![s] =
                          Reply([r EXCEPT !.stored = tagOtpStore[key]], 400, Msg("Invalid OTP"))]
            /\ UNCHANGED tagOtpStore
       ELSE /\ tagOtpStore' = Deleted(tagOtpStore, key)
            /\ reqs' = [reqs EXCEPT ![s] =
                          [r EXCEPT !.pc = "write", !.stored = tagOtpStore[key],
                                    !.data = VerifyData(r.body, tagOtpStore[key])]]
    /\ UNCHANGED <<tags, scans, now, ticks, nreq, storeTags>>

VerifyTagOtp_Write(s) ==
    /\ reqs[s].op = "verifyTagOtpAndUpdate" /\ reqs[s].pc = "write"
    /\ LET r == reqs[s]
           row == UpdatedRow(tags[r.param], r.data) IN
       /\ tags' = [tags EXCEPT ![r.param] = row]
       /\ reqs' = [reqs EXCEPT ![s] =
                     Reply(r, 200, [message |-> "Tag updated successfully after OTP verification",
                                    tag |-> FormatTagResponse(row)])]
    /\ UNCHANGED <<scans, tagOtpStore, now, ticks, nreq, storeTags>>

(***************************************************************************)
(* PATCH /tags/:id/privacy: updatePrivacy                                  *)
(***************************************************************************)
\* The setting names a client can put in the body: the flags and other keys of the row.
Settings == PrivacyFlags \cup {"isActive", "emergencyContactPhone", "userId", "status", "bogus"}

\* !tag[setting]
Negated(tag, setting) ==
    IF setting \notin DOMAIN tag THEN TRUE
    ELSE IF setting \in BooleanColumns THEN ~tag[setting]
    ELSE Falsy(tag[setting])

\* Prisma checks the data of an update against the schema: a boolean is accepted
\* only for a boolean column.
AcceptsBoolean(setting) == setting \in BooleanColumns

\* The request as it stands after the handler's first read.
UpdatePrivacy_Request(u, id, setting) ==
    [Idle EXCEPT !.op = "updatePrivacy", !.pc = "cont", !.userId = u,
                 !.param = id, !.body = [setting |-> setting],
                 !.tag = FindById(id)]

UpdatePrivacy_Find(s, u, id, setting) ==
    /\ Free(s)
    /\ nreq' = nreq + 1
    /\ reqs' = [reqs EXCEPT ![s] = UpdatePrivacy_Request(u, id, setting)]
    /\ UNCHANGED <<tags, scans, tagOtpStore, now, ticks, storeTags>>

UpdatePrivacy_Cont(s) ==
    /\ reqs[s].op = "updatePrivacy" /\ reqs[s].pc = "cont"
    /\ LET r == reqs[s] IN
       reqs' = [reqs EXCEPT ![s] =
                  IF r.tag = NoTag THEN Reply(r, 404, Msg("Tag not found"))
                  ELSE [r EXCEPT !.pc = "write",
                                 !.data = (r.body.setting :> Negated(r.tag, r.body.setting))]]
    /\ UNCHANGED <<tags, scans, tagOtpStore, now, ticks, nreq, storeTags>>

UpdatePrivacy_Write(s) ==
    /\ reqs[s].op = "updatePrivacy" /\ reqs[s].pc = "write"
    /\ LET r == reqs[s]
           row == UpdatedRow(tags[r.param], r.data) IN
       IF AcceptsBoolean(r.body.setting)
       THEN /\ tags' = [tags EXCEPT ![r.param] = row]
            /\ reqs' = [reqs EXCEPT ![s] = Reply(r, 200, FormatTagResponse(row))]
       ELSE /\ reqs' = [reqs EXCEPT ![s] = Reply(r, 500, Msg("Server error"))]
            /\ UNCHANGED tags
    /\ UNCHANGED <<scans, tagOtpStore, now, ticks, nreq, storeTags>>

(***************************************************************************)
(* GET /tags/public/:id: getPublicTag                                      *)
(***************************************************************************)
StartsWith(str, prefix) ==
    Len(str) >= Len(prefix) /\ SubSeq(str, 1, Len(prefix)) = prefix

FindTagByIdOrCode(identifier) ==
    IF StartsWith(identifier, TagPrefix) THEN FindByCode(identifier) ELSE FindById(identifier)

\* The values of the x-carcard-app request header: absent, 'true', anything else.
AppHeaders == {Null, "true", "1"}

\* A variant that trusts any value of the header.
IsFromApp_AnyValue(app) == app # Null

IsFromApp(app) == app = "true"

\* A variant that takes only a disabled tag for blank.
IsBlank_Disabled(tag) == tag.status = "disabled"

IsBlank(tag) == tag.status = "created" /\ Falsy(tag.userId)

BlankBody(tag) ==
    Merge(FormatTagResponse(tag),
          [isBlank |-> TRUE,
           message |-> "This tag is blank and can be formatted through the CarCard app."])

LockedBody ==
    [locked |-> TRUE,
     message |-> "This QR code can only be used with the CarCard app. Download it from the App Store or Play Store.",
     appStoreUrl |-> "https://apps.apple.com/app/carcard",
     playStoreUrl |-> "https://play.google.com/store/apps/details?id=com.carcard.app"]

ScanRow(tag) == [tagId |-> tag.id, location |-> "Unknown", timestamp |-> now]

PublicIdentifiers == {CodeA, CodeB, PlainCode, IdSeq[1], IdSeq[2]}

\* The request as it stands after the handler's first read.
GetPublicTag_Request(identifier, app) ==
    [Idle EXCEPT !.op = "getPublicTag", !.pc = "cont", !.param = identifier,
                 !.app = app, !.tag = FindTagByIdOrCode(identifier)]

GetPublicTag_Find(s, identifier, app) ==
    /\ Free(s)
    /\ nreq' = nreq + 1
    /\ reqs' = [reqs EXCEPT ![s] = GetPublicTag_Request(identifier, app)]
    /\ UNCHANGED <<tags, scans, tagOtpStore, now, ticks, storeTags>>

GetPublicTag_Cont(s) ==
    /\ reqs[s].op = "getPublicTag" /\ reqs[s].pc = "cont"
    /\ LET r == reqs[s] IN
       reqs' = [reqs EXCEPT ![s] =
                  IF r.tag = NoTag THEN Reply(r, 404, Msg("Tag not found"))
                  ELSE IF IsBlank(r.tag)
                  THEN IF IsFromApp(r.app) THEN Reply(r, 200, BlankBody(r.tag))
                       ELSE Reply(r, 403, LockedBody)
                  ELSE [r EXCEPT !.pc = "write", !.data = ScanRow(r.tag)]]
    /\ UNCHANGED <<tags, scans, tagOtpStore, now, ticks, nreq, storeTags>>

GetPublicTag_Write(s) ==
    /\ reqs[s].op = "getPublicTag" /\ reqs[s].pc = "write"
    /\ LET r == reqs[s] IN
       /\ scans' = Append(scans, r.data)
       /\ reqs' = [reqs EXCEPT ![s] = Reply(r, 200, FormatTagResponse(r.tag))]
    /\ UNCHANGED <<tags, tagOtpStore, now, ticks, nreq, storeTags>>

\* The scan screen: the Call Owner and WhatsApp buttons are enabled by the
\* privacy block of the tag it was answered.
CallEnabled(tag) == tag.privacy.allowMaskedCall

WhatsAppEnabled(tag) == tag.privacy.allowWhatsapp

(***************************************************************************)
(* generateBatch of the admin controller (scripts/generateTags.ts likewise) *)
(***************************************************************************)
ChunkSize == 100

\* The values of req.body.quantity.
Quantities == {1, 2}

\* The codes generateRandomCode draws.
DrawnCodes == {CodeA, CodeB}

Range(seq) == {seq[i] : i \in 1..Len(seq)}

\* A variant of createMany that does not skip the rows whose code is in the table.
SkipDuplicates_None(chunk) == chunk

\* createMany({skipDuplicates: true}): the rows whose code the table holds are skipped.
SkipDuplicates(chunk) == SelectSeq(chunk, LAMBDA c : FindByCode(c) = NoTag)

RECURSIVE InsertAll(_, _)
\* The table after createMany has inserted the rows of the codes, one by one.
InsertAll(table, codes) ==
    IF codes = << >> THEN table
    ELSE LET id == IdSeq[Cardinality(DOMAIN table) + 1] IN
         InsertAll(table @@ (id :> BlankRow(id, Head(codes))), Tail(codes))

\* The admin controller's QRCode.toBuffer(code): the data of the QR image is the
\* code as drawn.
AdminQrData(code) == code

GenerateBatch_Start(s, quantity) ==
    /\ Free(s)
    /\ Cardinality(DOMAIN tags) + Creating + Batching + quantity <= MaxTags
    /\ nreq' = nreq + 1
    /\ reqs' = [reqs EXCEPT ![s] =
                  [Idle EXCEPT !.op = "generateBatch", !.pc = "draw",
                               !.body = [quantity |-> quantity],
                               !.data = [tagsToCreate |-> << >>, qr |-> << >>, i |-> 0]]]
    /\ UNCHANGED <<tags, scans, tagOtpStore, now, ticks, storeTags>>

\* One turn of the while loop: a code that was drawn before is discarded.
GenerateBatch_Draw(s, code) ==
    /\ reqs[s].op = "generateBatch" /\ reqs[s].pc = "draw"
    /\ LET r == reqs[s]
           fresh == code \notin Range(r.data.tagsToCreate)
           drawn == IF fresh THEN Append(r.data.tagsToCreate, code) ELSE r.data.tagsToCreate
           images == IF fresh THEN Append(r.data.qr, AdminQrData(code)) ELSE r.data.qr IN
       reqs' = [reqs EXCEPT ![s] =
                  [r EXCEPT !.data.tagsToCreate = drawn,
                            !.data.qr = images,
                            !.pc = IF Len(drawn) < r.body.quantity THEN "draw" ELSE "insert"]]
    /\ UNCHANGED <<tags, scans, tagOtpStore, now, ticks, nreq, storeTags>>

\* The database executes the createMany of one chunk.  After the last chunk the
\* sheet (the codes as text, pdf, and the data of their QR images, qr) is
\* complete and the handler logs the number of tags it generated (created).
GenerateBatch_Insert(s) ==
    /\ reqs[s].op = "generateBatch" /\ reqs[s].pc = "insert"
    /\ LET r == reqs[s]
           last == IF r.data.i + ChunkSize < Len(r.data.tagsToCreate)
                   THEN r.data.i + ChunkSize ELSE Len(r.data.tagsToCreate)
           chunk == SubSeq(r.data.tagsToCreate, r.data.i + 1, last) IN
       /\ tags' = InsertAll(tags, SkipDuplicates(chunk))
       /\ reqs' = [reqs EXCEPT ![s] =
                     IF last < Len(r.data.tagsToCreate) THEN [r EXCEPT !.data.i = last]
                     ELSE Reply(r, 200, [pdf |-> r.data.tagsToCreate, qr |-> r.data.qr,
                                         created |-> Len(r.data.tagsToCreate)])]
    /\ UNCHANGED <<scans, tagOtpStore, now, ticks, nreq, storeTags>>

(***************************************************************************)
(* scripts/generateTags.ts: the QR payload of a tag code                   *)
(***************************************************************************)
MaxCodeLen == 4

\* charCodeAt of the characters that the codes of the model are made of.
CharCodes ==
    ("T" :> 84) @@ ("A" :> 65) @@ ("G" :> 71) @@ ("-" :> 45) @@ ("B" :> 66) @@ ("9" :> 57)

\* The char codes of SECRET_KEY = 'C@rC4rd$ecr3tK3y!2026#QR'.
SecretKey ==
    <<67, 64, 114, 67, 52, 114, 100, 36, 101, 99, 114, 51, 116, 75, 51, 121, 33, 50, 48, 50, 54, 35, 81, 82>>

StringToBytes(str) == [i \in 1..Len(str) |-> CharCodes[str[i]]]

Base64Chars ==
    <<"A", "B", "C", "D", "E", "F", "G", "H", "I", "J", "K", "L", "M", "N", "O", "P",
      "Q", "R", "S", "T", "U", "V", "W", "X", "Y", "Z", "a", "b", "c", "d", "e", "f",
      "g", "h", "i", "j", "k", "l", "m", "n", "o", "p", "q", "r", "s", "t", "u", "v",
      "w", "x", "y", "z", "0", "1", "2", "3", "4", "5", "6", "7", "8", "9", "+", "/">>

RECURSIVE Xor(_, _)
\* a ^ b on non-negative integers.
Xor(a, b) ==
    IF a = 0 THEN b
    ELSE IF b = 0 THEN a
    ELSE (((a % 2) + (b % 2)) % 2) + 2 * Xor(a \div 2, b \div 2)

KeyByte(i) == SecretKey[((i - 1) % Len(SecretKey)) + 1]

RECURSIVE BytesToBase64(_)
BytesToBase64(bytes) ==
    IF bytes = << >> THEN << >>
    ELSE LET n == Len(bytes)
             b1 == bytes[1]
             b2 == IF n >= 2 THEN bytes[2] ELSE 0
             b3 == IF n >= 3 THEN bytes[3] ELSE 0 IN
         << Base64Chars[((b1 \div 4) % 64) + 1],
            Base64Chars[((b1 % 4) * 16 + (b2 \div 16)) + 1],
            IF n >= 2 THEN Base64Chars[((b2 % 16) * 4 + (b3 \div 64)) + 1] ELSE "=",
            IF n >= 3 THEN Base64Chars[(b3 % 64) + 1] ELSE "=" >>
         \o BytesToBase64(SubSeq(bytes, 4, n))

\* A variant that encodes the bytes of the code without the key.
EncryptTagCode_NoKey(plaintext) == BytesToBase64(StringToBytes(plaintext))

EncryptTagCode(plaintext) ==
    LET plainBytes == StringToBytes(plaintext) IN
    BytesToBase64([i \in 1..Len(plainBytes) |-> Xor(plainBytes[i], KeyByte(i))])

QrPrefix == <<"C", "C", ":", ":", "1", ":">>

BuildQrPayload(tagCode) == QrPrefix \o EncryptTagCode(tagCode)

\* The mirror operation of the scanning app: strip the prefix, base64-decode,
\* XOR with the same key.
Base64Index(c) == CHOOSE i \in 0..63 : Base64Chars[i + 1] = c

RECURSIVE Base64ToBytes(_)
Base64ToBytes(chars) ==
    IF Len(chars) < 4 THEN << >>
    ELSE LET v1 == Base64Index(chars[1])
             v2 == Base64Index(chars[2])
             v3 == IF chars[3] = "=" THEN 0 ELSE Base64Index(chars[3])
             v4 == IF chars[4] = "=" THEN 0 ELSE Base64Index(chars[4]) IN
         << v1 * 4 + (v2 \div 16) >>
         \o (IF chars[3] = "=" THEN << >> ELSE << (v2 % 16) * 16 + (v3 \div 4) >>)
         \o (IF chars[4] = "=" THEN << >> ELSE << (v3 % 4) * 64 + v4 >>)
         \o Base64ToBytes(SubSeq(chars, 5, Len(chars)))

BytesToString(bytes) ==
    [i \in 1..Len(bytes) |->
        IF \E c \in DOMAIN CharCodes : CharCodes[c] = bytes[i]
        THEN CHOOSE c \in DOMAIN CharCodes : CharCodes[c] = bytes[i]
        ELSE "?"]

DecodeQrPayload(qrData) ==
    IF ~StartsWith(qrData, QrPrefix) THEN Null
    ELSE LET bytes == Base64ToBytes(SubSeq(qrData, Len(QrPrefix) + 1, Len(qrData))) IN
         BytesToString([i \in 1..Len(bytes) |-> Xor(bytes[i], KeyByte(i))])

QrAlphabet == {"A", "9"}

RECURSIVE SeqsUpTo(_, _)
\* The sequences over the alphabet of length at most n.
SeqsUpTo(alphabet, n) ==
    IF n = 0 THEN {<< >>}
    ELSE LET shorter == SeqsUpTo(alphabet, n - 1) IN
         shorter \cup {Append(q, c) : q \in shorter, c \in alphabet}

QrCodes == SeqsUpTo(QrAlphabet, MaxCodeLen) \cup {CodeA, CodeB}

\* The generator script calls buildQrPayload(code) for a code it has drawn ...
BuildQrPayload_Call(s, tagCode) ==
    /\ Free(s)
    /\ nreq' = nreq + 1
    /\ reqs' = [reqs EXCEPT ![s] =
                  [Idle EXCEPT !.op = "buildQrPayload", !.pc = "cont",
                               !.body = [tagCode |-> tagCode]]]
    /\ UNCHANGED <<tags, scans, tagOtpStore, now, ticks, storeTags>>

\* ... and gets the payload that it prints as a QR code.
BuildQrPayload_Return(s) ==
    /\ reqs[s].op = "buildQrPayload" /\ reqs[s].pc = "cont"
    /\ reqs' = [reqs EXCEPT ![s] =
                  Reply(reqs[s], 200, [qrData |-> BuildQrPayload(reqs[s].body.tagCode)])]
    /\ UNCHANGED <<tags, scans, tagOtpStore, now, ticks, nreq, storeTags>>

(***************************************************************************)
(* app/register-tag.tsx handleRegister, with the store's activateTag and   *)
(* registerTag: the client claims the code and, when that fails, creates   *)
(* a tag with it.                                                          *)
(***************************************************************************)
RegisterForms ==
    {[code |-> c, nickname |-> n, type |-> t, plateNumber |-> p] :
        c \in Codes, n \in Nicknames, t \in {"car", "bike"}, p \in {"", "MH12"}}

\* !code || !nickname || !plate: the form is refused before any request.
Complete(form) ==
form.code # << >> /\ ~Falsy(form.nickname) /\ ~Falsy(form.plateNumber)

\* A variant that takes every answer for a success.
Success_AnyAnswer(res) == TRUE

\* The store's try/catch: api.post throws unless the status is 2xx.
Success(res) == res.status \in 200..299

\* handleRegister waits at its second await: the claim has failed.
Pending(s) ==
    /\ reqs[s].from = "handleRegister"
    /\ reqs[s].op = "activateTag" /\ reqs[s].pc = "done"
    /\ ~Success(reqs[s].res)

HandleRegister_Activate(s, u, form) ==
    /\ Complete(form)
    /\ Free(s) /\ ~Pending(s)
    /\ nreq + 2 <= MaxReqs
    /\ Cardinality(DOMAIN tags) + Creating + Batching < MaxTags
    /\ nreq' = nreq + 1
    /\ reqs' = [reqs EXCEPT ![s] =
                  [ActivateTag_Request(u, form) EXCEPT !.from = "handleRegister"]]
    /\ UNCHANGED <<tags, scans, tagOtpStore, now, ticks, storeTags>>

HandleRegister_Register(s) ==
    /\ Pending(s)
    /\ nreq' = nreq + 1
    /\ reqs' = [reqs EXCEPT ![s] =
                  [CreateTag_Request(reqs[s].userId, reqs[s].body)
                      EXCEPT !.from = "handleRegister"]]
    /\ UNCHANGED <<tags, scans, tagOtpStore, now, ticks, storeTags>>

(***************************************************************************)
(* The app's scan screen: services/api.ts, the store's getPublicTag and    *)
(* the screen's choice of what to show.                                    *)
(***************************************************************************)
\* The headers the shared axios instance puts on every request.
ApiHeaders == ("Content-Type" :> "application/json")

\* req.headers[name] of a request made through the shared instance.
ApiHeader(name) == IF name \in DOMAIN ApiHeaders THEN ApiHeaders[name] ELSE Null

\* The store's getPublicTag: api.get(...) ...
StoreGetPublicTag_Call(s, tagId) ==
    /\ Free(s)
    /\ nreq' = nreq + 1
    /\ reqs' = [reqs EXCEPT ![s] =
                  [GetPublicTag_Request(tagId, ApiHeader("x-carcard-app"))
                      EXCEPT !.from = "tagStore"]]
    /\ UNCHANGED <<tags, scans, tagOtpStore, now, ticks, storeTags>>

\* ... whose result is response.data, or null when axios throws (no 2xx).
StoreGetPublicTag_Result(res) == IF Success(res) THEN res.body ELSE << >>

\* What the scan screen renders for the data loadTag got.
ScanScreen(data) ==
    IF data = << >> THEN "Tag not found or inactive"
    ELSE IF data.status = "created" \/ (~data.isActive /\ Falsy(data.userId))
    THEN "New Tag Detected"
    ELSE "Contact Owner"

(***************************************************************************)
(* store/tagStore.ts togglePrivacy: the store flips its own flag, sends    *)
(* the request and flips the flag back when the request fails.             *)
(***************************************************************************)
\* tags.map(tag => tag._id === tagId ? {...tag, privacy: {..., [setting]: !...}} : tag)
Flipped(store, tagId, setting) ==
    [id \in DOMAIN store |->
        IF id = tagId THEN [store[id] EXCEPT ![setting] = ~store[id][setting]]
        ELSE store[id]]

\* A togglePrivacy call that waits for its answer or has not yet handled it.
Unsettled(s) == reqs[s].from = "togglePrivacy"

TogglePrivacy_Call(s, u, tagId, setting) ==
    /\ Free(s) /\ ~Unsettled(s)
    /\ nreq' = nreq + 1
    /\ storeTags' = Flipped(storeTags, tagId, setting)
    /\ reqs' = [reqs EXCEPT ![s] =
                  [UpdatePrivacy_Request(u, tagId, setting) EXCEPT !.from = "togglePrivacy"]]
    /\ UNCHANGED <<tags, scans, tagOtpStore, now, ticks>>

\* The await returns: on an answer that is not 2xx the catch flips the flag back.
TogglePrivacy_Settle(s) ==
    /\ Unsettled(s) /\ reqs[s].pc = "done"
    /\ storeTags' = IF Success(reqs[s].res) THEN storeTags
                    ELSE Flipped(storeTags, reqs[s].param, reqs[s].body.setting)
    /\ reqs' = [reqs EXCEPT ![s].from = "settled"]
    /\ UNCHANGED <<tags, scans, tagOtpStore, now, ticks, nreq>>

(***************************************************************************)
(* Time.                                                                   *)
(***************************************************************************)
TickSteps == {1, OtpTtlMs}

Tick(d) ==
    /\ ticks < MaxTicks
    /\ now' = now + d
    /\ ticks' = ticks + 1
    /\ UNCHANGED <<tags, scans, tagOtpStore, reqs, nreq, storeTags>>

(***************************************************************************)
(* The system.                                                             *)
(***************************************************************************)
\* The tag table after the batch generator has inserted one blank tag.
BlankTable == (IdSeq[1] :> BlankRow(IdSeq[1], CodeA))

\* The same table after user U1 has activated that tag.
ClaimedTable ==
    (IdSeq[1] :> UpdatedRow(BlankRow(IdSeq[1], CodeA),
                            ActivateData("U1", [code |-> CodeA, plateNumber |-> "MH12"])))

\* The app's store after it has fetched the tags of the table.
StoreTagsOf(table) == [id \in DOMAIN table |-> FormatTagResponse(table[id]).privacy]

InitWith(table) ==
    /\ tags = table
    /\ storeTags = StoreTagsOf(table)
    /\ scans = << >>
    /\ tagOtpStore = << >>
    /\ now = 0
    /\ ticks = 0
    /\ reqs = [s \in Slots |-> Idle]
    /\ nreq = 0

TagIds == {IdSeq[1], IdSeq[2]}

Activate(S, U, B) ==
    \/ \E s \in S, u \in U, b \in B : ActivateTag_Find(s, u, b)
    \/ \E s \in Slots : ActivateTag_Cont(s)
    \/ \E s \in Slots : ActivateTag_Write(s)

Create(S, U, B) ==
    \/ \E s \in S, u \in U, b \in B : CreateTag_Find(s, u, b)
    \/ \E s \in Slots : CreateTag_Cont(s)
    \/ \E s \in Slots : CreateTag_Write(s)

Update(S, U, I, B) ==
    \/ \E s \in S, u \in U, id \in I, b \in B : UpdateTag_Find(s, u, id, b)
    \/ \E s \in Slots : UpdateTag_Cont(s)
    \/ \E s \in Slots : UpdateTag_Write(s)

SendOtp(S, U, I, B) ==
    \/ \E s \in S, u \in U, id \in I, b \in B : SendTagOtp_Find(s, u, id, b)
    \/ \E s \in Slots, otp \in OtpDraws : SendTagOtp_Cont(s, otp)

VerifyOtp(S, U, I, B) ==
    \/ \E s \in S, u \in U, id \in I, b \in B : VerifyTagOtp_Find(s, u, id, b)
    \/ \E s \in Slots : VerifyTagOtp_Cont(s)
    \/ \E s \in Slots : VerifyTagOtp_Write(s)

Privacy(S, U, I, X) ==
    \/ \E s \in S, u \in U, id \in I, x \in X : UpdatePrivacy_Find(s, u, id, x)
    \/ \E s \in Slots : UpdatePrivacy_Cont(s)
    \/ \E s \in Slots : UpdatePrivacy_Write(s)

Public(S, I, A) ==
    \/ \E s \in S, i \in I, a \in A : GetPublicTag_Find(s, i, a)
    \/ \E s \in Slots : GetPublicTag_Cont(s)
    \/ \E s \in Slots : GetPublicTag_Write(s)

Batch(S, Q, C) ==
    \/ \E s \in S, q \in Q : GenerateBatch_Start(s, q)
    \/ \E s \in Slots, c \in C : GenerateBatch_Draw(s, c)
    \/ \E s \in Slots : GenerateBatch_Insert(s)

Toggle(S, U, I, X) ==
    \/ \E s \in S, u \in U, id \in I, x \in X : TogglePrivacy_Call(s, u, id, x)
    \/ \E s \in Slots : UpdatePrivacy_Cont(s)
    \/ \E s \in Slots : UpdatePrivacy_Write(s)
    \/ \E s \in Slots : TogglePrivacy_Settle(s)

AppScan(S, I) ==
    \/ \E s \in S, i \in I : StoreGetPublicTag_Call(s, i)
    \/ \E s \in Slots : GetPublicTag_Cont(s)
    \/ \E s \in Slots : GetPublicTag_Write(s)

Qr(S, C) ==
    \/ \E s \in S, c \in C : BuildQrPayload_Call(s, c)
    \/ \E s \in Slots : BuildQrPayload_Return(s)

Register(S, U, F) ==
    \/ \E s \in S, u \in U, f \in F : HandleRegister_Activate(s, u, f)
    \/ \E s \in Slots : HandleRegister_Register(s)
    \/ \E s \in Slots : ActivateTag_Cont(s) \/ ActivateTag_Write(s)
    \/ \E s \in Slots : CreateTag_Cont(s) \/ CreateTag_Write(s)

Clock == \E d \in TickSteps : Tick(d)

\* One request at a time: a request arrives only when no other is in flight.
OneAtATime == {1}

(***************************************************************************)
(* SpecClaim: concurrent activate and create requests on a blank tag.      *)
(***************************************************************************)
InitClaim == InitWith(BlankTable)

NextClaim ==
    \/ Activate(Slots, Callers, ActivateBodies)
    \/ Create(Slots, Callers, CreateBodies)

SpecClaim == InitClaim /\ [][NextClaim]_vars

\* Slot s takes a step of its handler.
Stepped(s) == reqs'[s] # reqs[s]

Answered(s, op) == reqs[s].op = op /\ reqs[s].pc = "done"

\* C1: two concurrent activate requests for the same blank tag from different
\* users: exactly one is answered 200 and the other 400 (already linked), and the
\* tag ends up owned by the user whose request got the 200.  Stated for the first
\* two requests of a run that starts with the blank tag.
C1_ExactlyOneClaimSucceeds ==
    \A s, t \in Slots :
        ( /\ s # t /\ nreq = 2
          /\ Answered(s, "activateTag") /\ Answered(t, "activateTag")
          /\ reqs[s].body.code = CodeA /\ reqs[t].body.code = CodeA
          /\ reqs[s].userId \in Users /\ reqs[t].userId \in Users
          /\ reqs[s].userId # reqs[t].userId )
        => \E w \in {s, t} : \E l \in {s, t} \ {w} :
              /\ reqs[w].res.status = 200
              /\ reqs[l].res.status = 400
              /\ FindByCode(CodeA).userId = reqs[w].userId

\* C7: an activate request looks the tag up by its code; when no tag has the code
\* it is answered 404, when the tag it found is active or has an owner it is
\* answered 400, and in both cases the tag table is left as it was.
C7_RejectedClaimChangesNothing ==
    [][\A s \in Slots :
        /\ ( /\ Stepped(s) /\ reqs'[s].op = "activateTag" /\ reqs'[s].pc = "cont" )
           => reqs'[s].tag = FindByCode(reqs'[s].body.code)
        /\ ( /\ Stepped(s) /\ reqs[s].op = "activateTag" /\ reqs[s].pc = "cont"
             /\ reqs[s].tag = NoTag )
           => /\ reqs'[s].pc = "done" /\ reqs'[s].res.status = 404
              /\ tags' = tags
        /\ ( /\ Stepped(s) /\ reqs[s].op = "activateTag" /\ reqs[s].pc = "cont"
             /\ reqs[s].tag # NoTag
             /\ (reqs[s].tag.status = "active" \/ reqs[s].tag.userId \in Users) )
           => /\ reqs'[s].pc = "done" /\ reqs'[s].res.status = 400
              /\ tags' = tags
    ]_vars

\* A request by one user was answered 400 for a tag that another user owns.
C7_Witness ==
    \E s \in Slots :
        /\ Answered(s, "activateTag") /\ reqs[s].res.status = 400
        /\ reqs[s].userId \in Users
        /\ FindByCode(reqs[s].body.code) # NoTag
        /\ FindByCode(reqs[s].body.code).userId \in Users \ {reqs[s].userId}

\* C8: the update of a successful activate sets userId to the caller, status to
\* active, plateNumber to the value sent and nickname to the value sent, or to
\* 'My Vehicle' when none or an empty one was sent; the tag's code, privacy flags
\* and emergency contact, the other tags and the scan table are unchanged.
C8_ClaimSetsOwnerAndMetadata ==
    [][\A s \in Slots :
        ( Stepped(s) /\ reqs[s].op = "activateTag" /\ reqs[s].pc = "write" )
        => LET r == reqs[s]
               id == r.tag.id
               old == tags[id]
               new == tags'[id] IN
           /\ reqs'[s].pc = "done" /\ reqs'[s].res.status = 200
           /\ new.userId = r.userId
           /\ new.status = "active"
           /\ Has(r.body, "plateNumber") => new.plateNumber = r.body.plateNumber
           /\ new.nickname = IF Has(r.body, "nickname") /\ r.body.nickname # ""
                              THEN r.body.nickname ELSE "My Vehicle"
           /\ new.code = old.code /\ new.id = old.id
           /\ \A f \in PrivacyFlags : new[f] = old[f]
           /\ new.emergencyContactName = old.emergencyContactName
           /\ new.emergencyContactPhone = old.emergencyContactPhone
           /\ \A i \in DOMAIN tags : i # id => tags'[i] = tags[i]
           /\ DOMAIN tags' = DOMAIN tags
           /\ scans' = scans
    ]_vars

\* A request that sent an empty nickname was answered 200 and the tag now belongs
\* to its caller under the placeholder nickname.
C8_Witness ==
    \E s \in Slots :
        /\ Answered(s, "activateTag") /\ reqs[s].res.status = 200
        /\ Has(reqs[s].body, "nickname") /\ reqs[s].body.nickname = ""
        /\ FindByCode(reqs[s].body.code).userId = reqs[s].userId
        /\ FindByCode(reqs[s].body.code).nickname = "My Vehicle"
        /\ FindByCode(reqs[s].body.code).plateNumber = reqs[s].body.plateNumber

(***************************************************************************)
(* SpecEdit: the owner's edit and OTP endpoints on a claimed tag, one       *)
(* request at a time, with the clock.                                       *)
(***************************************************************************)
InitEdit == InitWith(ClaimedTable)

EditUpdateBodies ==
    PatchesOver({"nickname"}) \cup PatchesOver({"emergencyContactPhone"})
        \cup {[nickname |-> "Car2", emergencyContactPhone |-> "P1"]}

EditPending == {[nickname |-> "Car2"], [allowSms |-> FALSE]}

EditSendBodies ==
    {[phoneNumber |-> "P1", pendingData |-> d] : d \in EditPending}
    \cup {[phoneNumber |-> p] : p \in {"P2", ""}}

EditVerifyBodies ==
    {[phoneNumber |-> "P1", otp |-> o, pendingData |-> d] :
        o \in OtpDraws, d \in {<< >>, [allowSms |-> FALSE]}}
    \cup {[phoneNumber |-> p, otp |-> o] : p \in Phones, o \in OtpDraws}

NextEdit ==
    \/ Update(OneAtATime, Users, {IdSeq[1]}, EditUpdateBodies)
    \/ SendOtp(OneAtATime, Users, {IdSeq[1]}, EditSendBodies)
    \/ VerifyOtp(OneAtATime, Users, {IdSeq[1]}, EditVerifyBodies)
    \/ Clock

SpecEdit == InitEdit /\ [][NextEdit]_vars

AtCont(s, op) == reqs[s].op = op /\ reqs[s].pc = "cont" /\ Stepped(s)

AtWrite(s, op) == reqs[s].op = op /\ reqs[s].pc = "write" /\ Stepped(s)

\* C3: an update by the owner whose body carries an emergencyContactPhone that is
\* not empty and differs from the stored one is answered otpRequired, and the
\* step changes no tag (so none of the other fields of the body is saved), no
\* OTP entry and no scan.
C3_PhoneChangeNeedsOtp ==
    [][\A s \in Slots :
        ( /\ AtCont(s, "updateTag")
          /\ reqs[s].tag # NoTag
          /\ reqs[s].tag.userId = reqs[s].userId
          /\ Has(reqs[s].body, "emergencyContactPhone")
          /\ reqs[s].body.emergencyContactPhone # ""
          /\ reqs[s].body.emergencyContactPhone # tags[reqs[s].param].emergencyContactPhone )
        => /\ reqs'[s].pc = "done"
           /\ reqs'[s].res.status = 200
           /\ Has(reqs'[s].res.body, "otpRequired") /\ reqs'[s].res.body.otpRequired
           /\ ~Has(reqs'[s].res.body, "tag")
           /\ tags' = tags
           /\ tagOtpStore' = tagOtpStore
           /\ scans' = scans
    ]_vars

\* The owner sent a new nickname together with a new phone number, was answered
\* otpRequired, and the stored nickname and phone are not the ones sent.
C3_Witness ==
    \E s \in Slots :
        /\ Answered(s, "updateTag")
        /\ Has(reqs[s].res.body, "otpRequired")
        /\ Has(reqs[s].body, "nickname")
        /\ tags[reqs[s].param].userId = reqs[s].userId
        /\ tags[reqs[s].param].nickname # reqs[s].body.nickname
        /\ tags[reqs[s].param].emergencyContactPhone # reqs[s].body.emergencyContactPhone

\* C4: when a verify with the issued code commits, the tag holds every field of
\* the patch captured by the send (unless the verify itself carries another value
\* for that field) and emergencyContactPhone is the verified number, and the OTP
\* entry of that tag and number is gone.
C4_VerifyCommitsCapturedPatch ==
    [][\A s \in Slots :
        AtWrite(s, "verifyTagOtpAndUpdate")
        => LET r == reqs[s]
               captured == r.stored.pendingData
               sent == IF Has(r.body, "pendingData") THEN r.body.pendingData ELSE << >>
               new == tags'[r.param] IN
           /\ \A f \in (DOMAIN captured) \cap EditFields :
                 (~Has(sent, f) \/ sent[f] = captured[f]) => new[f] = captured[f]
           /\ new.emergencyContactPhone = r.body.phoneNumber
           /\ StoreKey(r.param, r.body.phoneNumber) \notin DOMAIN tagOtpStore'
    ]_vars

\* C5: a verify by the owner that finds an entry whose expiresAt is in the past
\* is answered 400 'OTP has expired', whatever code it submits; the step deletes
\* that entry, keeps the others and changes no tag.  A verify that finds no entry
\* is answered 400 'No OTP was sent' and changes nothing.
C5_ExpiredOtpIsRemoved ==
    [][\A s \in Slots :
        ( /\ AtCont(s, "verifyTagOtpAndUpdate")
          /\ reqs[s].tag # NoTag
          /\ reqs[s].tag.userId = reqs[s].userId )
        => LET r == reqs[s]
               key == StoreKey(r.param, r.body.phoneNumber) IN
           /\ ( key \in DOMAIN tagOtpStore /\ now > tagOtpStore[key].expiresAt )
              => /\ reqs'[s].pc = "done"
                 /\ reqs'[s].res.status = 400
                 /\ reqs'[s].res.body.message = "OTP has expired. Please request a new one."
                 /\ DOMAIN tagOtpStore' = (DOMAIN tagOtpStore) \ {key}
                 /\ \A k \in DOMAIN tagOtpStore' : tagOtpStore'[k] = tagOtpStore[k]
                 /\ tags' = tags
           /\ key \notin DOMAIN tagOtpStore
              => /\ reqs'[s].pc = "done"
                 /\ reqs'[s].res.status = 400
                 /\ reqs'[s].res.body.message = "No OTP was sent for this number"
                 /\ tagOtpStore' = tagOtpStore
                 /\ tags' = tags
    ]_vars

\* A verify that submitted the issued code was answered 'OTP has expired', the
\* entry is gone and the tag does not hold the number.
C5_Witness ==
    \E s \in Slots :
        /\ Answered(s, "verifyTagOtpAndUpdate")
        /\ reqs[s].res.body.message = "OTP has expired. Please request a new one."
        /\ reqs[s].stored # << >>
        /\ reqs[s].stored.otp = reqs[s].body.otp
        /\ StoreKey(reqs[s].param, reqs[s].body.phoneNumber) \notin DOMAIN tagOtpStore
        /\ tags[reqs[s].param].emergencyContactPhone # reqs[s].body.phoneNumber

\* C6: updateTag, sendTagOtp and verifyTagOtpAndUpdate read the tag by its id, and
\* when the caller is not the userId of the tag they read they answer 403 and the
\* step changes neither a tag nor the OTP store.
C6_NonOwnerIsForbidden ==
    [][\A s \in Slots :
        \A op \in {"updateTag", "sendTagOtp", "verifyTagOtpAndUpdate"} :
            /\ ( Stepped(s) /\ reqs'[s].op = op /\ reqs'[s].pc = "cont" )
               => reqs'[s].tag = FindById(reqs'[s].param)
            /\ ( /\ AtCont(s, op)
                 /\ reqs[s].tag # NoTag
                 /\ reqs[s].tag.userId # reqs[s].userId )
               => /\ reqs'[s].pc = "done"
                  /\ reqs'[s].res.status = 403
                  /\ tags' = tags
                  /\ tagOtpStore' = tagOtpStore
    ]_vars

\* A verify by a user who does not own the tag was answered 403 although it
\* submitted the code of a live entry, and that entry is still there.
C6_Witness ==
    \E s \in Slots :
        LET key == StoreKey(reqs[s].param, reqs[s].body.phoneNumber) IN
        /\ Answered(s, "verifyTagOtpAndUpdate")
        /\ reqs[s].res.status = 403
        /\ tags[reqs[s].param].userId # reqs[s].userId
        /\ key \in DOMAIN tagOtpStore
        /\ tagOtpStore[key].otp = reqs[s].body.otp
        /\ now <= tagOtpStore[key].expiresAt
        /\ tags[reqs[s].param].emergencyContactPhone # reqs[s].body.phoneNumber

\* C15: a send that is answered 200 leaves, for its tag and number, the one
\* entry it has just built: its own code, its own patch, expiresAt = now + 5 min,
\* whatever entry was there before.  A verify that finds a live entry is answered
\* 'Invalid OTP' when its code is not the entry's and goes on to commit when it
\* is, and the commit stores the fields of the patch captured in that entry
\* (unless the verify itself carries another value for a field).
C15_ResendReplacesEntry ==
    [][\A s \in Slots :
        LET r == reqs[s]
            q == reqs'[s] IN
        /\ ( AtCont(s, "sendTagOtp") /\ q.res # NoRes /\ q.res.status = 200 )
           => LET key == StoreKey(r.param, r.body.phoneNumber) IN
              /\ key \in DOMAIN tagOtpStore'
              /\ tagOtpStore'[key].expiresAt = now + OtpTtlMs
              /\ tagOtpStore'[key].pendingData =
                    (IF Has(r.body, "pendingData") THEN r.body.pendingData ELSE << >>)
              /\ \A k \in (DOMAIN tagOtpStore) \ {key} :
                    k \in DOMAIN tagOtpStore' /\ tagOtpStore'[k] = tagOtpStore[k]
        /\ ( /\ AtCont(s, "verifyTagOtpAndUpdate")
             /\ r.tag # NoTag /\ r.tag.userId = r.userId
             /\ StoreKey(r.param, r.body.phoneNumber) \in DOMAIN tagOtpStore
             /\ now <= tagOtpStore[StoreKey(r.param, r.body.phoneNumber)].expiresAt )
           => IF tagOtpStore[StoreKey(r.param, r.body.phoneNumber)].otp = r.body.otp
              THEN q.pc = "write"
              ELSE q.pc = "done" /\ q.res.body.message = "Invalid OTP"
        /\ AtWrite(s, "verifyTagOtpAndUpdate")
           => LET captured == r.stored.pendingData
                  sent == IF Has(r.body, "pendingData") THEN r.body.pendingData ELSE << >> IN
              \A f \in (DOMAIN captured) \cap EditFields :
                  (~Has(sent, f) \/ sent[f] = captured[f]) => tags'[r.param][f] = captured[f]
    ]_vars

\* C19: the update of a verify gives each editable field the value the verify
\* request carries for it when it carries one, otherwise the value captured by
\* the send when one was captured, and otherwise leaves the field as stored.
C19_VerifyMergesFieldByField ==
    [][\A s \in Slots :
        AtWrite(s, "verifyTagOtpAndUpdate")
        => LET r == reqs[s]
               captured == r.stored.pendingData
               sent == IF Has(r.body, "pendingData") THEN r.body.pendingData ELSE << >>
               old == tags[r.param]
               new == tags'[r.param] IN
           \A f \in EditFields :
               new[f] = (IF Has(sent, f) THEN sent[f]
                         ELSE IF Has(captured, f) THEN captured[f]
                         ELSE old[f])
    ]_vars

(***************************************************************************)
(* SpecVerify: the owner's sends and verifies for one tag, one after the   *)
(* other, while the clock advances.                                        *)
(***************************************************************************)
InitVerify == InitWith(ClaimedTable)

NextVerify ==
    \/ SendOtp(OneAtATime, {"U1"}, {IdSeq[1]}, EditSendBodies)
    \/ VerifyOtp(OneAtATime, {"U1"}, {IdSeq[1]}, EditVerifyBodies)
    \/ Clock

SpecVerify == InitVerify /\ [][NextVerify]_vars

\* C20: a verify of the owner that finds no entry for its tag and number is
\* answered 400 'No OTP was sent for this number'; one that finds an entry that
\* has not expired and submits another code than the entry's is answered 400
\* 'Invalid OTP'; neither changes a tag or the OTP store.  One that submits the
\* entry's code goes on to the update.
C20_WrongCodeChangesNothing ==
    [][\A s \in Slots :
        ( /\ AtCont(s, "verifyTagOtpAndUpdate")
          /\ reqs[s].tag # NoTag
          /\ reqs[s].tag.userId = reqs[s].userId )
        => LET r == reqs[s]
               q == reqs'[s]
               key == StoreKey(r.param, r.body.phoneNumber) IN
           IF key \notin DOMAIN tagOtpStore
           THEN /\ q.pc = "done" /\ q.res.status = 400
                /\ q.res.body = Msg("No OTP was sent for this number")
                /\ tags' = tags /\ tagOtpStore' = tagOtpStore
           ELSE now <= tagOtpStore[key].expiresAt
                => IF tagOtpStore[key].otp # r.body.otp
                   THEN /\ q.pc = "done" /\ q.res.status = 400
                        /\ q.res.body = Msg("Invalid OTP")
                        /\ tags' = tags /\ tagOtpStore' = tagOtpStore
                   ELSE q.pc = "write"
    ]_vars

\* A verify with another code than the issued one was answered 'Invalid OTP':
\* the entry it was compared with is still in the store, not expired, and the
\* tag does not hold the number.
C20_Witness ==
    \E s \in Slots :
        LET r == reqs[s]
            key == StoreKey(r.param, r.body.phoneNumber) IN
        /\ Answered(s, "verifyTagOtpAndUpdate")
        /\ r.res.status = 400 /\ r.res.body = Msg("Invalid OTP")
        /\ key \in DOMAIN tagOtpStore
        /\ tagOtpStore[key] = r.stored
        /\ r.stored.otp # r.body.otp
        /\ now <= tagOtpStore[key].expiresAt
        /\ tags[r.param].emergencyContactPhone # r.body.phoneNumber

(***************************************************************************)
(* SpecPatch: the owner's updateTag requests, two in flight, on a tag that *)
(* has a stored emergency phone, while the tag is being scanned.           *)
(***************************************************************************)
PatchTable ==
    (IdSeq[1] :> UpdatedRow(ClaimedTable[IdSeq[1]], [emergencyContactPhone |-> "P1"]))

PatchBodies ==
    { [nickname |-> "Car2"],
      [allowSms |-> FALSE, vehicleColor |-> "red"],
      [emergencyContactPhone |-> ""],
      [emergencyContactPhone |-> "P1", nickname |-> "Car3"],
      [emergencyContactPhone |-> "P2", nickname |-> "Car3"],
      [nickname |-> "Car2", userId |-> "U2", status |-> "created", code |-> CodeB] }

InitPatch == InitWith(PatchTable)

NextPatch ==
    \/ Update(Slots, {"U1"}, {IdSeq[1]}, PatchBodies)
    \/ Public(Slots, {CodeA}, {Null})

SpecPatch == InitPatch /\ [][NextPatch]_vars

\* C18: an updateTag of the owner whose body has no emergencyContactPhone, an
\* empty one or the stored one goes on to the update, and the update sets each
\* editable field of the body to the body's value and leaves every other column
\* of the row (userId, status, code, emergencyContactPhone among them), the other
\* rows, the scans and the OTP store as they were.
C18_UpdateTouchesOnlyPatchFields ==
    [][\A s \in Slots :
        LET r == reqs[s]
            q == reqs'[s] IN
        /\ ( /\ AtCont(s, "updateTag")
             /\ r.tag # NoTag /\ r.tag.userId = r.userId
             /\ \/ ~Has(r.body, "emergencyContactPhone")
                \/ r.body.emergencyContactPhone = ""
                \/ r.body.emergencyContactPhone = r.tag.emergencyContactPhone )
           => q.pc = "write" /\ tags' = tags /\ scans' = scans
        /\ AtWrite(s, "updateTag")
           => LET old == tags[r.param]
                  new == tags'[r.param] IN
              /\ q.pc = "done" /\ q.res.status = 200
              /\ DOMAIN new = DOMAIN old
              /\ \A f \in EditFields :
                    new[f] = (IF Has(r.body, f) THEN r.body[f] ELSE old[f])
              /\ \A f \in (DOMAIN old) \ EditFields : new[f] = old[f]
              /\ \A id \in (DOMAIN tags) \ {r.param} : tags'[id] = tags[id]
              /\ DOMAIN tags' = DOMAIN tags
              /\ scans' = scans
              /\ tagOtpStore' = tagOtpStore
    ]_vars

\* The owner's update with a nickname, a userId, a status and a code was
\* answered 200 after a scan was logged: the nickname is the one sent, and the
\* owner, the status, the code and the emergency phone are the stored ones.
C18_Witness ==
    \E s \in Slots :
        /\ Answered(s, "updateTag") /\ reqs[s].res.status = 200
        /\ Has(reqs[s].res.body, "tag")
        /\ Has(reqs[s].body, "userId")
        /\ tags[IdSeq[1]].nickname = reqs[s].body.nickname
        /\ tags[IdSeq[1]].userId = "U1" /\ reqs[s].body.userId # "U1"
        /\ tags[IdSeq[1]].status # reqs[s].body.status
        /\ tags[IdSeq[1]].code = CodeA
        /\ tags[IdSeq[1]].emergencyContactPhone = "P1"
        /\ Len(scans) > 0

(***************************************************************************)
(* SpecScan: public scans of a blank and of a claimed tag, while the       *)
(* claimed tag's flags are toggled and the blank one is activated.         *)
(***************************************************************************)
ScanTable ==
    (IdSeq[1] :> BlankRow(IdSeq[1], CodeA))
    @@ (IdSeq[2] :> UpdatedRow(BlankRow(IdSeq[2], CodeB),
                               ActivateData("U1", [code |-> CodeB, plateNumber |-> "MH12"])))

InitScan == InitWith(ScanTable)

NextScan ==
    \/ Public(Slots, PublicIdentifiers, AppHeaders)
    \/ Privacy(Slots, {"U1"}, {IdSeq[2]}, {"showEmergencyContact", "allowSms"})
    \/ Activate(Slots, {"U2"}, {[code |-> CodeA, plateNumber |-> "MH12"]})

SpecScan == InitScan /\ [][NextScan]_vars

\* The keys a formatted tag carries.
TagFields == Columns \cup {"_id", "privacy", "emergencyContact"}

\* C9: when getPublicTag has read a tag with status 'created' and no userId, a
\* request without the header x-carcard-app: true is answered 403 with a body
\* that has 'locked' and none of the tag's fields, and logs no scan; a request
\* with that header is answered 200 with the tag's fields and isBlank = true.
C9_BlankTagLockedOutsideApp ==
    [][\A s \in Slots :
        ( /\ AtCont(s, "getPublicTag")
          /\ reqs[s].tag # NoTag
          /\ reqs[s].tag.status = "created"
          /\ reqs[s].tag.userId = Null )
        => /\ reqs'[s].pc = "done"
           /\ scans' = scans
           /\ tags' = tags
           /\ IF reqs[s].app = "true"
              THEN /\ reqs'[s].res.status = 200
                   /\ Has(reqs'[s].res.body, "isBlank") /\ reqs'[s].res.body.isBlank
                   /\ reqs'[s].res.body.code = reqs[s].tag.code
                   /\ reqs'[s].res.body._id = reqs[s].tag.id
              ELSE /\ reqs'[s].res.status = 403
                   /\ Has(reqs'[s].res.body, "locked") /\ reqs'[s].res.body.locked
                   /\ (DOMAIN reqs'[s].res.body) \cap TagFields = {}
    ]_vars

\* Two scans of the tag that is still blank have been answered: one without the
\* app header got 403 locked, one with it got the tag marked isBlank.
C9_Witness ==
    \E s, t \in Slots :
        /\ Answered(s, "getPublicTag") /\ Answered(t, "getPublicTag")
        /\ reqs[s].param = CodeA /\ reqs[t].param = CodeA
        /\ IsBlank(tags[IdSeq[1]])
        /\ reqs[s].app # "true" /\ reqs[s].res.status = 403 /\ reqs[s].res.body = LockedBody
        /\ reqs[t].app = "true" /\ reqs[t].res.status = 200 /\ reqs[t].res.body.isBlank

\* C10: a 200 answer of getPublicTag for a claimed tag whose showEmergencyContact
\* is false has no emergencyContact block and no emergencyContactName or
\* emergencyContactPhone field.
C10_HiddenEmergencyContactAbsent ==
    \A s \in Slots :
        ( /\ Answered(s, "getPublicTag")
          /\ reqs[s].res.status = 200
          /\ ~Has(reqs[s].res.body, "isBlank")
          /\ ~reqs[s].res.body.privacy.showEmergencyContact )
        => (DOMAIN reqs[s].res.body)
              \cap {"emergencyContact", "emergencyContactName", "emergencyContactPhone"} = {}

\* C11: a 200 answer of getPublicTag for a claimed tag does not carry the userId
\* of the tag (its owner), so it is the same whoever owns the tag.
C11_PublicResponseHidesOwner ==
    \A s \in Slots :
        ( /\ Answered(s, "getPublicTag")
          /\ reqs[s].res.status = 200
          /\ ~Has(reqs[s].res.body, "isBlank") )
        => ~Has(reqs[s].res.body, "userId")

(***************************************************************************)
(* SpecContact: public scans of the claimed tag while its owner toggles    *)
(* the three contact flags.                                                *)
(***************************************************************************)
ContactFlags == {"allowMaskedCall", "allowWhatsapp", "allowSms"}

InitContact == InitWith(ScanTable)

NextContact ==
    \/ Public(Slots, {CodeB}, {Null})
    \/ Privacy(Slots, {"U1"}, {IdSeq[2]}, ContactFlags)

SpecContact == InitContact /\ [][NextContact]_vars

\* C17: getPublicTag reads the row as it is stored when the request arrives, and
\* its 200 answer for a claimed tag carries that row's allowMaskedCall,
\* allowWhatsapp and allowSms, each under its own name in the privacy block, the
\* scan screen enabling Call Owner by the first and WhatsApp by the second.
C17_ContactAffordancesMirrorFlags ==
    [][\A s \in Slots :
        LET r == reqs[s]
            q == reqs'[s] IN
        /\ ( Free(s) /\ Stepped(s) /\ q.op = "getPublicTag" )
           => q.tag = FindTagByIdOrCode(q.param)
        /\ ( AtWrite(s, "getPublicTag") /\ ~IsBlank(r.tag) )
           => /\ q.pc = "done" /\ q.res.status = 200
              /\ CallEnabled(q.res.body) = r.tag.allowMaskedCall
              /\ WhatsAppEnabled(q.res.body) = r.tag.allowWhatsapp
              /\ q.res.body.privacy.allowSms = r.tag.allowSms
    ]_vars

\* The owner has switched allowSms off and nothing else, and a scan answered
\* after that shows SMS off with Call Owner and WhatsApp still enabled.
C17_Witness ==
    \E s, t \in Slots :
        /\ Answered(s, "updatePrivacy") /\ reqs[s].res.status = 200
        /\ reqs[s].body.setting = "allowSms"
        /\ ~tags[IdSeq[2]].allowSms
        /\ Answered(t, "getPublicTag") /\ reqs[t].res.status = 200
        /\ ~reqs[t].res.body.privacy.allowSms
        /\ CallEnabled(reqs[t].res.body) /\ WhatsAppEnabled(reqs[t].res.body)

(***************************************************************************)
(* SpecToggle: updatePrivacy requests, one after the other, for a claimed  *)
(* tag and for an id that no tag has, with every setting name of Settings. *)
(***************************************************************************)
InitToggle == InitWith(ClaimedTable)

NextToggle == Privacy(OneAtATime, {"U1"}, {IdSeq[1], IdSeq[2]}, Settings)

SpecToggle == InitToggle /\ [][NextToggle]_vars

\* C21: the update of an updatePrivacy changes no column of the tag that is
\* not a privacy flag, whatever setting name the request carries; when the name
\* is a privacy flag, that flag becomes the negation of the value read and the
\* other flags keep theirs; a request for an id that no tag has is answered 404.
C21_ToggleChangesOnlyTheFlag ==
    [][\A s \in Slots :
        LET r == reqs[s]
            q == reqs'[s] IN
        /\ ( AtCont(s, "updatePrivacy") /\ r.tag = NoTag )
           => q.pc = "done" /\ q.res.status = 404 /\ tags' = tags
        /\ AtWrite(s, "updatePrivacy")
           => LET old == tags[r.param]
                  new == tags'[r.param] IN
              /\ DOMAIN new = DOMAIN old
              /\ \A c \in (DOMAIN old) \ PrivacyFlags : new[c] = old[c]
              /\ \A f \in PrivacyFlags \ {r.body.setting} : new[f] = old[f]
              /\ r.body.setting \in PrivacyFlags
                    => new[r.body.setting] = ~r.tag[r.body.setting]
    ]_vars

(***************************************************************************)
(* SpecResolve: public scans by code and by id of an issued blank tag and  *)
(* of a tag registered through createTag with a code of the user's choice. *)
(***************************************************************************)
InitResolve == InitWith(BlankTable)

NextResolve ==
    \/ Create(Slots, {"U1"}, {b \in CreateBodies : b.code = PlainCode})
    \/ Public(Slots, {CodeA, PlainCode, IdSeq[1], IdSeq[2], IdSeq[3]}, {Null, "true"})

SpecResolve == InitResolve /\ [][NextResolve]_vars

\* C22: when getPublicTag arrives with an identifier that is the code or the id
\* of a stored tag, the lookup returns that tag (the one with that code if there
\* is one, else the one with that id), and it returns nothing only when no tag
\* has that code or id.
C22_ResolveFindsByCodeOrId ==
    [][\A s \in Slots :
        LET q == reqs'[s] IN
        ( Free(s) /\ Stepped(s) /\ q.op = "getPublicTag" )
        => q.tag = (IF FindByCode(q.param) # NoTag THEN FindByCode(q.param)
                    ELSE FindById(q.param))
    ]_vars

\* C23: a 200 answer of activateTag to a request that carries a type returns
\* the tag with that type.
C23_ClaimStoresType ==
    \A s \in Slots :
        ( /\ Answered(s, "activateTag")
          /\ reqs[s].res.status = 200
          /\ Has(reqs[s].body, "type") )
        => reqs[s].res.body.tag.type = reqs[s].body.type

(***************************************************************************)
(* SpecSheet: the two issuance paths: generateBatch requests of the admin  *)
(* endpoint and the generator script's buildQrPayload calls.               *)
(***************************************************************************)
InitSheet == InitWith(<< >>)

NextSheet ==
    \/ Batch(Slots, Quantities, DrawnCodes)
    \/ Qr(Slots, DrawnCodes)

SpecSheet == InitSheet /\ [][NextSheet]_vars

\* C24: the data of every QR image on a finished sheet is 'CC::1:' followed by
\* the obfuscated code, never the code itself: on the sheet of generateBatch,
\* image by image, and in what the script gets from buildQrPayload.
C24_SheetQrIsObfuscated ==
    \A s \in Slots :
        /\ ( Answered(s, "generateBatch") /\ reqs[s].res.status = 200 )
           => LET sheet == reqs[s].res.body IN
              /\ Len(sheet.qr) = Len(sheet.pdf)
              /\ \A i \in 1..Len(sheet.pdf) :
                    /\ sheet.qr[i] = BuildQrPayload(sheet.pdf[i])
                    /\ sheet.qr[i] # sheet.pdf[i]
        /\ Answered(s, "buildQrPayload")
           => /\ reqs[s].res.body.qrData = QrPrefix \o EncryptTagCode(reqs[s].body.tagCode)
              /\ reqs[s].res.body.qrData # reqs[s].body.tagCode

\* C25: when generateBatch finishes, every code on its sheet is the code of a
\* row that its createMany has inserted (no tag had the code before) and that is
\* blank (status 'created', no userId), and the count it reports is the number
\* of rows the table has gained.
C25_SheetCodesAreInsertedBlankTags ==
    [][\A s \in Slots :
        ( /\ reqs[s].op = "generateBatch" /\ reqs[s].pc = "insert"
          /\ reqs[s].data.i = 0
          /\ reqs'[s].pc = "done" )
        => LET sheet == reqs'[s].res.body IN
           /\ \A i \in 1..Len(sheet.pdf) :
                 /\ FindByCode(sheet.pdf[i]) = NoTag
                 /\ \E id \in DOMAIN tags' :
                       /\ tags'[id].code = sheet.pdf[i]
                       /\ tags'[id].status = "created"
                       /\ tags'[id].userId = Null
           /\ sheet.created = Cardinality(DOMAIN tags') - Cardinality(DOMAIN tags)
    ]_vars

(***************************************************************************)
(* SpecApp: scans made by the app's own client of a blank and of a claimed *)
(* tag, while the blank one is activated.                                   *)
(***************************************************************************)
InitApp == InitWith(ScanTable)

NextApp ==
    \/ AppScan(Slots, {CodeA, CodeB, IdSeq[1], IdSeq[3]})
    \/ Activate(Slots, {"U2"}, {[code |-> CodeA, plateNumber |-> "MH12"]})

SpecApp == InitApp /\ [][NextApp]_vars

\* C26: when a getPublicTag sent by the app's store has read a blank tag, it is
\* answered 200 with the tag marked isBlank, the store returns that tag and the
\* scan screen shows 'New Tag Detected', not 'Tag not found or inactive'.
C26_AppScanOfBlankTagIsRecognised ==
    [][\A s \in Slots :
        ( /\ AtCont(s, "getPublicTag")
          /\ reqs[s].from = "tagStore"
          /\ reqs[s].tag # NoTag
          /\ IsBlank(reqs[s].tag) )
        => LET res == reqs'[s].res IN
           /\ res.status = 200
           /\ Has(res.body, "isBlank") /\ res.body.isBlank
           /\ ScanScreen(StoreGetPublicTag_Result(res)) = "New Tag Detected"
    ]_vars

(***************************************************************************)
(* SpecOwner: every operation that writes a tag, two requests in flight,   *)
(* on a table with one blank tag that both users try to activate.          *)
(***************************************************************************)
InitOwner == InitWith(BlankTable)

NextOwner ==
    \/ Activate(Slots, Users, {[code |-> CodeA, plateNumber |-> "MH12"]})
    \/ Create(Slots, {"U2"}, {b \in CreateBodies : b.code = CodeB})
    \/ Update(Slots, Users, {IdSeq[1]},
              {[nickname |-> "Car2", userId |-> "U2", status |-> "created"]})
    \/ SendOtp(Slots, Users, {IdSeq[1]}, {[phoneNumber |-> "P1"]})
    \/ VerifyOtp(Slots, Users, {IdSeq[1]},
                 {[phoneNumber |-> "P1", otp |-> "100000",
                   pendingData |-> [userId |-> "U2", status |-> "created"]]})
    \/ Privacy(Slots, {"U2"}, {IdSeq[1]}, {"userId", "status", "allowSms"})
    \/ Public(Slots, {CodeA}, {"true"})

SpecOwner == InitOwner /\ [][NextOwner]_vars

\* C27: in every state a tag with status 'created' has no userId and a tag with
\* a userId has status 'active'; and no step removes a tag that has a userId,
\* changes or clears that userId, or takes the tag's status away from 'active'.
C27_OwnerIsPermanent ==
    /\ [](\A id \in DOMAIN tags :
            /\ tags[id].status = "created" => tags[id].userId = Null
            /\ tags[id].userId # Null => tags[id].status = "active")
    /\ [][\A id \in DOMAIN tags :
            tags[id].userId # Null
            => /\ id \in DOMAIN tags'
               /\ tags'[id].userId = tags[id].userId
               /\ tags'[id].status = "active"
       ]_vars

(***************************************************************************)
(* SpecKeys: sends and verifies of two owners for their two tags and two   *)
(* phone numbers, two requests in flight.                                  *)
(***************************************************************************)
KeysTable ==
    (IdSeq[1] :> UpdatedRow(BlankRow(IdSeq[1], CodeA),
                            ActivateData("U1", [code |-> CodeA, plateNumber |-> "MH12"])))
    @@ (IdSeq[2] :> UpdatedRow(BlankRow(IdSeq[2], CodeB),
                               ActivateData("U2", [code |-> CodeB, plateNumber |-> "MH12"])))

InitKeys == InitWith(KeysTable)

NextKeys ==
    \/ SendOtp(Slots, Users, {IdSeq[1], IdSeq[2]}, {[phoneNumber |-> p] : p \in Phones})
    \/ VerifyOtp(Slots, Users, {IdSeq[1], IdSeq[2]},
                 {[phoneNumber |-> p, otp |-> "100000"] : p \in Phones})

SpecKeys == InitKeys /\ [][NextKeys]_vars

\* C28: two different (tag, phone) pairs never have the same key.  An entry
\* appears or changes under a key only by a send of the tag's owner for that tag
\* and that phone.  A verify looks at the entry under the key of its own tag and
\* phone only: without one it commits nothing even when other keys hold an
\* entry with its code, the entry it commits with is that one, and it leaves
\* the entries under every other key as they were.
C28_PendingEntriesAreKeyedByTagAndPhone ==
    [][/\ \A t1, t2 \in Ids, p1, p2 \in Phones \cup {""} :
            StoreKey(t1, p1) = StoreKey(t2, p2) => (t1 = t2 /\ p1 = p2)
       /\ \A t \in Ids, p \in Phones :
            LET k == StoreKey(t, p) IN
            ( k \in DOMAIN tagOtpStore'
              /\ (k \notin DOMAIN tagOtpStore \/ tagOtpStore'[k] # tagOtpStore[k]) )
            => \E s \in Slots :
                 /\ AtCont(s, "sendTagOtp")
                 /\ reqs[s].param = t /\ reqs[s].body.phoneNumber = p
                 /\ reqs[s].tag # NoTag /\ reqs[s].tag.userId = reqs[s].userId
       /\ \A s \in Slots :
            LET r == reqs[s]
                q == reqs'[s] IN
            /\ AtCont(s, "verifyTagOtpAndUpdate")
               => LET key == StoreKey(r.param, r.body.phoneNumber) IN
                  /\ \A t \in Ids, p \in Phones :
                        ( (t # r.param \/ p # r.body.phoneNumber)
                          /\ StoreKey(t, p) \in DOMAIN tagOtpStore )
                        => /\ StoreKey(t, p) \in DOMAIN tagOtpStore'
                           /\ tagOtpStore'[StoreKey(t, p)] = tagOtpStore[StoreKey(t, p)]
                  /\ q.pc = "write"
                        => /\ key \in DOMAIN tagOtpStore
                           /\ q.stored = tagOtpStore[key]
                           /\ key \notin DOMAIN tagOtpStore'
            /\ AtWrite(s, "verifyTagOtpAndUpdate")
               => /\ tags'[r.param].emergencyContactPhone = r.body.phoneNumber
                  /\ \A id \in (DOMAIN tags) \ {r.param} : tags'[id] = tags[id]
                  /\ tagOtpStore' = tagOtpStore
    ]_vars

\* Tag id1 holds the number P1 after a verify for (id1, P1) was answered 200,
\* and the entry of another key, sent before that verify, is still in the store.
C28_Witness ==
    \E s \in Slots :
        /\ Answered(s, "verifyTagOtpAndUpdate") /\ reqs[s].res.status = 200
        /\ reqs[s].param = IdSeq[1] /\ reqs[s].body.phoneNumber = "P1"
        /\ tags[IdSeq[1]].emergencyContactPhone = "P1"
        /\ StoreKey(IdSeq[1], "P1") \notin DOMAIN tagOtpStore
        /\ \/ StoreKey(IdSeq[1], "P2") \in DOMAIN tagOtpStore
           \/ StoreKey(IdSeq[2], "P1") \in DOMAIN tagOtpStore
        /\ tags[IdSeq[2]].emergencyContactPhone = Null

(***************************************************************************)
(* SpecOnce: the owner has been sent one code for (id1, P1); verifies of   *)
(* that key arrive, two in flight, and no further code is sent.            *)
(***************************************************************************)
InitOnce ==
    /\ now = 0
    /\ ticks = 0
    /\ tags = ClaimedTable
    /\ storeTags = StoreTagsOf(ClaimedTable)
    /\ scans = << >>
    /\ tagOtpStore = (StoreKey(IdSeq[1], "P1") :> OtpEntry("100000", [phoneNumber |-> "P1"]))
    /\ reqs = [s \in Slots |-> Idle]
    /\ nreq = 0

OnceVerifyBodies ==
    {[phoneNumber |-> "P1", otp |-> o] : o \in OtpDraws}
    \cup {[phoneNumber |-> "P1", otp |-> o, pendingData |-> [nickname |-> "Car2"]] :
             o \in OtpDraws}

NextOnce == VerifyOtp(Slots, {"U1"}, {IdSeq[1]}, OnceVerifyBodies)

SpecOnce == InitOnce /\ [][NextOnce]_vars

\* The verifies that have passed the code check: waiting for their update or
\* answered 200.
Committing ==
    {s \in Slots : /\ reqs[s].op = "verifyTagOtpAndUpdate"
                   /\ \/ reqs[s].pc = "write"
                      \/ reqs[s].pc = "done" /\ reqs[s].res.status = 200}

\* C29: of the verifies for the one code that was sent, at most one passes the
\* code check, whatever the interleaving: while one is past the check the entry
\* is not in the store, and a verify with the same code that is answered after
\* it is answered 400 'No OTP was sent for this number'.
C29_PendingOtpIsSingleUse ==
    /\ Cardinality(Committing) <= 1
    /\ Committing # {} => tagOtpStore = << >>
    /\ \A s, t \in Slots :
          ( /\ s # t
            /\ Answered(s, "verifyTagOtpAndUpdate") /\ reqs[s].res.status = 200
            /\ Answered(t, "verifyTagOtpAndUpdate")
            /\ reqs[t].body.otp = reqs[s].body.otp )
          => /\ reqs[t].res.status = 400
             /\ reqs[t].res.body = Msg("No OTP was sent for this number")

\* Two verifies with the code that was sent have both been answered: one 200,
\* the other 'No OTP was sent for this number', and the tag holds the number.
C29_Witness ==
    \E s, t \in Slots :
        /\ Answered(s, "verifyTagOtpAndUpdate") /\ reqs[s].res.status = 200
        /\ Answered(t, "verifyTagOtpAndUpdate") /\ reqs[t].res.status = 400
        /\ reqs[s].body.otp = "100000" /\ reqs[t].body.otp = "100000"
        /\ reqs[t].res.body = Msg("No OTP was sent for this number")
        /\ tags[IdSeq[1]].emergencyContactPhone = "P1"

(***************************************************************************)
(* SpecStore: togglePrivacy calls of the owner's app, two in flight, for   *)
(* two flags of its tag and for a tag that the server does not have.       *)
(***************************************************************************)
InitStore == InitWith(ClaimedTable)

NextStore == Toggle(Slots, {"U1"}, {IdSeq[1], IdSeq[2]}, {"allowSms", "allowWhatsapp"})

SpecStore == InitStore /\ [][NextStore]_vars

\* C30: when no togglePrivacy call is waiting for its answer or has yet to
\* handle it, each flag the store shows for a tag is the flag the server holds.
C30_StoreFlagsMatchServer ==
    (\A s \in Slots : ~Unsettled(s))
    => \A id \in (DOMAIN storeTags) \cap (DOMAIN tags) :
          \A f \in PrivacyFlags : storeTags[id][f] = tags[id][f]

(***************************************************************************)
(* SpecLog: concurrent public scans of a blank and of a claimed tag while  *)
(* the clock advances and the blank tag is activated.                      *)
(***************************************************************************)
InitLog == InitWith(ScanTable)

NextLog ==
    \/ Public(Slots, {CodeA, CodeB, PlainCode}, {Null, "true"})
    \/ Activate(Slots, {"U2"}, {[code |-> CodeA, plateNumber |-> "MH12"]})
    \/ Clock

SpecLog == InitLog /\ [][NextLog]_vars

\* C12: the scan table only grows at its end, and only by the insert of a
\* getPublicTag that read a claimed tag: that step appends one entry for that tag
\* and answers 200.  A getPublicTag that read no tag or a blank tag is answered
\* without an insert.  The timestamp of an entry is the time at which its request
\* went past the blank-tag test, which is not before any entry logged by then.
C12_ScanLogGrowsByOne ==
    [][/\ Len(scans') >= Len(scans)
       /\ SubSeq(scans', 1, Len(scans)) = scans
       /\ (\A s \in Slots : ~AtWrite(s, "getPublicTag")) => scans' = scans
       /\ \A s \in Slots :
            /\ AtWrite(s, "getPublicTag")
               => /\ Len(scans') = Len(scans) + 1
                  /\ scans'[Len(scans')].tagId = reqs[s].tag.id
                  /\ scans'[Len(scans')].timestamp = reqs[s].data.timestamp
                  /\ reqs'[s].pc = "done" /\ reqs'[s].res.status = 200
            /\ AtCont(s, "getPublicTag")
               => IF reqs[s].tag = NoTag
                     \/ (reqs[s].tag.status = "created" /\ reqs[s].tag.userId = Null)
                  THEN reqs'[s].pc = "done"
                  ELSE /\ reqs'[s].pc = "write"
                       /\ reqs'[s].data.timestamp = now
                       /\ \A i \in 1..Len(scans) : scans[i].timestamp <= now
    ]_vars

\* Two scans of the claimed tag have been answered 200 and the log holds their
\* two entries, the second later than the first.
C12_Witness ==
    \E s, t \in Slots :
        /\ s # t
        /\ Answered(s, "getPublicTag") /\ reqs[s].res.status = 200
        /\ Answered(t, "getPublicTag") /\ reqs[t].res.status = 200
        /\ reqs[s].param = CodeB /\ reqs[t].param = CodeB
        /\ Len(scans) = 2
        /\ scans[1].tagId = IdSeq[2] /\ scans[2].tagId = IdSeq[2]
        /\ scans[1].timestamp < scans[2].timestamp

(***************************************************************************)
(* SpecQr: the generator builds the QR payloads of codes, two at a time.   *)
(***************************************************************************)
InitQr == InitWith(<< >>)

NextQr == Qr(Slots, QrCodes)

SpecQr == InitQr /\ [][NextQr]_vars

\* C14: decoding the payload built for a code gives the code back, and the
\* payloads built for two different codes are different.
C14_QrPayloadRoundTrip ==
    \A s \in Slots :
        Answered(s, "buildQrPayload")
        => /\ DecodeQrPayload(reqs[s].res.body.qrData) = reqs[s].body.tagCode
           /\ \A t \in Slots :
                ( Answered(t, "buildQrPayload") /\ reqs[t].body.tagCode # reqs[s].body.tagCode )
                => reqs[t].res.body.qrData # reqs[s].res.body.qrData

\* The payloads of two different codes of the same length have been built, one
\* of them with base64 padding.
C14_Witness ==
    \E s, t \in Slots :
        /\ Answered(s, "buildQrPayload") /\ Answered(t, "buildQrPayload")
        /\ reqs[s].body.tagCode = CodeA /\ reqs[t].body.tagCode = CodeB
        /\ reqs[s].res.body.qrData[Len(reqs[s].res.body.qrData)] = "="
        /\ reqs[s].res.body.qrData # QrPrefix \o BytesToBase64(StringToBytes(CodeA))

(***************************************************************************)
(* SpecRegister: users run the register workflow, one at a time, on a      *)
(* table that holds one tag, blank or claimed by U1.                       *)
(***************************************************************************)
InitRegister == \E table \in {BlankTable, ClaimedTable} : InitWith(table)

NextRegister == Register(OneAtATime, Users, RegisterForms)

SpecRegister == InitRegister /\ [][NextRegister]_vars

FromRegister(s) == reqs[s].from = "handleRegister"

\* C16: in the register workflow, (1) the claim is answered 200 exactly when the
\* code is that of a blank tag, which is then active and owned by the caller;
\* (2) createTag is sent only after a failed claim, with the same code, and is
\* answered 201 exactly when no tag has the code, and then a new active tag of
\* the caller has it; (3) a request that fails changes no tag, and a createTag
\* that fails found a claimed tag; (4) the workflow is over only after a claim
\* that succeeded or after the answer to createTag.
C16_RegisterFallsBackToCreate ==
    [][\A s \in Slots :
        LET r == reqs[s]
            q == reqs'[s]
            before == FindByCode(r.body.code) IN
        /\ ( Stepped(s) /\ FromRegister(s) /\ r.pc # "done" /\ q.pc = "done" )
           => /\ r.op = "activateTag"
                 => /\ Success(q.res) <=> (before # NoTag /\ before.status = "created"
                                                            /\ before.userId = Null)
                    /\ Success(q.res)
                       => /\ tags'[before.id].userId = r.userId
                          /\ tags'[before.id].status = "active"
                          /\ DOMAIN tags' = DOMAIN tags
              /\ r.op = "createTag"
                 => /\ Success(q.res) <=> before = NoTag
                    /\ Success(q.res)
                       => \E id \in (DOMAIN tags') \ (DOMAIN tags) :
                             /\ tags'[id].code = r.body.code
                             /\ tags'[id].userId = r.userId
                             /\ tags'[id].status = "active"
                             /\ \A other \in DOMAIN tags : tags'[other] = tags[other]
                    /\ ~Success(q.res) => before.userId # Null
              /\ ~Success(q.res) => tags' = tags
        /\ ( Stepped(s) /\ q.from = "handleRegister" /\ q.op = "createTag" /\ r.pc = "done" )
           => /\ FromRegister(s) /\ r.op = "activateTag" /\ ~Success(r.res)
              /\ q.body = r.body /\ q.userId = r.userId
              /\ tags' = tags
        /\ ( Stepped(s) /\ q.from = "handleRegister" /\ q.op = "activateTag"
               /\ r.pc = "done" /\ FromRegister(s) )
           => \/ r.op = "activateTag" /\ r.res.status = 200
              \/ r.op = "createTag"
    ]_vars

\* U2 ran the workflow with the code of the tag that U1 owns: the claim failed,
\* createTag was answered 400, and the tag is still U1's.
C16_Witness ==
    \E s \in Slots :
        /\ FromRegister(s) /\ Answered(s, "createTag")
        /\ reqs[s].res.status = 400
        /\ reqs[s].userId = "U2"
        /\ FindByCode(reqs[s].body.code) = ClaimedTable[IdSeq[1]]

(***************************************************************************)
(* SpecBatch: batches of blank tags are generated while users create tags  *)
(* and activate them; the table starts empty.                              *)
(***************************************************************************)
InitBatch == InitWith(<< >>)

NextBatch ==
    \/ Batch(Slots, Quantities, DrawnCodes)
    \/ Create(Slots, {"U1"}, {b \in CreateBodies : b.code \in DrawnCodes})
    \/ Activate(Slots, {"U2"}, {[code |-> CodeA, plateNumber |-> "MH12"]})

SpecBatch == InitBatch /\ [][NextBatch]_vars

\* C13: no two rows of the tag table have the same code, and the codes a batch
\* has drawn so far are pairwise distinct.
C13_CodesAreUnique ==
    /\ \A a, b \in DOMAIN tags : tags[a].code = tags[b].code => a = b
    /\ \A s \in Slots :
         reqs[s].op = "generateBatch" /\ reqs[s].pc \in {"draw", "insert"}
         => LET codes == reqs[s].data.tagsToCreate IN
            \A i, j \in 1..Len(codes) : codes[i] = codes[j] => i = j

\* A batch has been inserted while a createTag for one of its codes was between
\* its lookup and its insert; the insert was refused (500) and the table holds
\* that code once.
C13_Witness ==
    \E s, t \in Slots :
        /\ Answered(s, "generateBatch")
        /\ Answered(t, "createTag") /\ reqs[t].res.status = 500
        /\ reqs[t].body.code \in Range(reqs[s].res.body.pdf)
        /\ Cardinality({id \in DOMAIN tags : tags[id].code = reqs[t].body.code}) = 1

(***************************************************************************)
(* Spec: every operation, on a table that holds one blank or one claimed   *)
(* tag; the clock stands still, so no OTP entry expires.                   *)
(***************************************************************************)
Init == \E table \in {BlankTable, ClaimedTable} : InitWith(table)

AllUpdateBodies ==
    {[emergencyContactPhone |-> ""], [nickname |-> "Car2", emergencyContactPhone |-> "P2"]}

AllSendBodies ==
    {[phoneNumber |-> "P1"],
     [phoneNumber |-> "P1", pendingData |-> [emergencyContactPhone |-> "P2"]]}

AllVerifyBodies ==
    {[phoneNumber |-> "P1", otp |-> o] : o \in OtpDraws}
    \cup {[phoneNumber |-> "P1", otp |-> o, pendingData |-> [emergencyContactPhone |-> "P2"]] :
             o \in OtpDraws}

Next ==
    \/ Activate(Slots, {"U1"}, {[code |-> CodeA, plateNumber |-> "MH12"]})
    \/ Create(Slots, {"U2"}, {b \in CreateBodies : b.code = CodeB})
    \/ Update(Slots, Users, {IdSeq[1]}, AllUpdateBodies)
    \/ SendOtp(Slots, {"U1"}, {IdSeq[1]}, AllSendBodies)
    \/ VerifyOtp(Slots, Users, {IdSeq[1]}, AllVerifyBodies)
    \/ Privacy(Slots, {"U2"}, {IdSeq[1]}, {"emergencyContactPhone", "showEmergencyContact"})
    \/ Public(Slots, {CodeA}, {"true"})

Spec == Init /\ [][Next]_vars

\* C2: no step removes a tag, a tag that a step creates has no emergency contact
\* phone, and a step that changes the emergencyContactPhone of a tag is the write
\* of a verifyTagOtpAndUpdate for that tag which has matched the stored code, and
\* the new value is the phone number of that request.
C2_PhoneChangesOnlyByVerify ==
    [][/\ DOMAIN tags \subseteq DOMAIN tags'
       /\ \A id \in DOMAIN tags' :
            IF id \notin DOMAIN tags
            THEN tags'[id].emergencyContactPhone = Null
            ELSE tags'[id].emergencyContactPhone # tags[id].emergencyContactPhone
                 => \E s \in Slots :
                      /\ AtWrite(s, "verifyTagOtpAndUpdate")
                      /\ reqs[s].param = id
                      /\ reqs[s].stored.otp = reqs[s].body.otp
                      /\ reqs[s].body.phoneNumber = tags'[id].emergencyContactPhone
                      /\ reqs'[s].pc = "done" /\ reqs'[s].res.status = 200
    ]_vars

\* A verify has committed its phone number, an update that carried another
\* phone number and a toggle of 'emergencyContactPhone' have been answered, and
\* the tag holds the verified number.
C2_Witness ==
    \E s \in Slots :
        /\ Answered(s, "verifyTagOtpAndUpdate")
        /\ reqs[s].res.status = 200
        /\ tags[reqs[s].param].emergencyContactPhone = reqs[s].body.phoneNumber
        /\ Has(reqs[s].body, "pendingData")
        /\ reqs[s].body.pendingData.emergencyContactPhone # reqs[s].body.phoneNumber

====
